---- MODULE Spec2Model ----
(***************************************************************************)
(* CodeRAG backend: the session store and its background sweep            *)
(* (services/session_service.py, main.py), the ingest and query handlers  *)
(* (api/upload.py, api/query.py, api/session.py) and the answer generator *)
(* with its model fallback chain (services/llm_service.py).               *)
(*                                                                         *)
(* The specifications share the variables:                                 *)
(*   Spec     sessions, ingest, query, manual cleanup, sweep, shutdown    *)
(*   FairSpec Spec with the event loop's scheduling of the sweep task     *)
(*   LLMSpec  one generate_explanation call over a drawn configuration    *)
(*   StoreSpec  calls of the session store's interface, one at a time      *)
(*   VecSpec  calls of the vector index and of index_codebase             *)
(*   RagSpec  the upload and query handlers over the vector index         *)
(***************************************************************************)
EXTENDS Integers, Sequences, FiniteSets, TLC

(***************************************************************************)
(* Bounds of the model.  Time is counted in ticks; the configured         *)
(* durations are scaled to ticks.                                          *)
(***************************************************************************)
MaxTime == 2
SessionTTL == 1
CleanupInterval == 1
MaxLag == 1
MaxFallbacks == 2
MaxChunks == 2
\* batch_size of insert_embeddings, scaled
BatchSize == 1
MaxLines == 3
MaxIndent == 2
MaxText == 4
MaxFiles == 3
\* settings.max_chunk_size and the length of a module chunk's prefix, scaled
ChunkSize == 2
ModulePrefix == 2

\* stop_after_attempt(3) of the retry decorator on _call_model
StopAfterAttempt == 3

\* max_chunks_per_query of the settings
MaxChunksPerQuery == 5

\* width of the number in a chunk identifier
IdWidth == 6

SessionIds == {"s1", "s2"}
Models == {"m1", "m2", "m3"}
\* the model argument of generate_explanation: None, the empty string, or a name
NoneArg == "None"
ModelArgs == {NoneArg, ""} \cup Models

VARIABLES
    \* ---- session store, vector index, working files, clock
    now,          \* the clock, in ticks
    rec,          \* rec[s]: the store's record of session s (NoRec: no key)
    coll,         \* coll[s]: the vector collection session_<s> exists
    \* ---- request handlers
    ipc,          \* ipc[s]: position of the ingest handler that owns s
    qpc,          \* qpc[s]: a query's update_session has read s and not yet written
    \* ---- sweep task (auto_cleanup_sessions) and host shutdown
    swPc,         \* "sleep" | "cycle" | "done" | "crashed"
    timer,        \* ticks left of the current sleep
    swNow,        \* current_time of the running cycle
    swTodo,       \* session ids of the cycle's list not yet examined
    swStale,      \* ids the running cycle found inactive (log line 162)
    swFaulted,    \* ... whose cleanup hit a fault (log lines 178, 289, 137)
    swDelFail,    \* ... whose delete_session hit a store error (log line 118)
    swErr,        \* the error log: "list" | "get" (logged in the running or the
                  \* last cycle), "past" (in the cycle before), "none"
    cancel,       \* "none" | "requested" | "delivered"
    \* ---- answer generator
    defaultModel, fallbackModels, enableFallback,   \* configuration
    modelArg,     \* the model argument of the call
    llmPc,        \* "idle" | "call" | "returned" | "raised"
    modelsToTry,  \* models_to_try
    idx,          \* position of current_model in models_to_try
    attempt,      \* attempt number of the retry wrapper for the current model
    lastError,    \* last_error
    callLog,      \* the completion requests sent: <<[pos, model, outcome]>>
    llmResult,    \* what generate_explanation returned or raised
    \* ---- session store, one call at a time
    kv,           \* kv[id]: the key session:<id>, its JSON value and its expiry
    issued,       \* identifiers create_session has drawn
    ret,          \* the last call of the store's interface and how it ended
    \* ---- vector index and the pipeline over it
    vdb,          \* vdb[s]: the collection session_<s> and its entries
    ixFailed,     \* sessions whose index_codebase raised
    vret,         \* the last call of the vector index or pipeline and how it ended
    \* ---- code generator (generate_code_snippet)
    snArg,        \* the model argument of the call
    snPc,         \* "idle" | "call" | "returned" | "raised"
    snModels,     \* models_to_try
    snIdx,        \* position of current_model in models_to_try
    snLast,       \* last_error
    snLog,        \* the completion requests sent: <<[pos, model, outcome]>>
    snResult,     \* what generate_code_snippet returned or raised
    \* ---- chunker
    pret,         \* the last parse: its files and the chunks it returned
    \* ---- update_session, command by command, of concurrent callers
    upd,          \* upd[u]: caller u's position, what it read and how it ended
    \* ---- the sweep's reclaim of one session, await by await
    rcl,          \* the session being reclaimed and the statement reached
    \* ---- the API handlers (api/query.py, api/session.py) as whole calls
    hret          \* the last request handled and the response it got

sessVars == <<now, rec, coll, ipc, qpc, swPc, timer, swNow, swTodo,
              swStale, swFaulted, swDelFail, swErr, cancel>>
llmVars == <<defaultModel, fallbackModels, enableFallback, modelArg, llmPc,
             modelsToTry, idx, attempt, lastError, callLog, llmResult>>
storeVars == <<kv, issued, ret>>
vecVars == <<vdb, ixFailed, vret>>
snipVars == <<snArg, snPc, snModels, snIdx, snLast, snLog, snResult>>
tailVars == <<rcl, hret>>
auxVars == <<snipVars, pret, upd, tailVars>>
vars == <<sessVars, llmVars, storeVars, vecVars, auxVars>>

(***************************************************************************)
(*                         ANSWER GENERATOR                                *)
(***************************************************************************)

\* outcomes of one chat.completions.create request
TransientErrors == {"timeout", "network"}
HardErrors == {"insufficient_quota", "rate_limit", "model_not_found"}
ApiErrors == TransientErrors \cup HardErrors \cup {"server_error"}
Outcomes == {"ok"} \cup ApiErrors

NoError == [type |-> "None", text |-> "", arg |-> ""]

\* the exception the client raises for an outcome; str(e) names the outcome
ApiException(outcome) ==
    [type |-> CASE outcome = "timeout" -> "TimeoutException"
                [] outcome = "network" -> "NetworkError"
                [] OTHER -> "APIStatusError",
     text |-> outcome, arg |-> ""]

\* _call_model's except clause: every exception leaves as an LLMException
CallModelExcept(e, model) ==
    CASE e.text = "insufficient_quota" ->
            [type |-> "LLMException", text |-> "Insufficient quota on OpenRouter account", arg |-> ""]
      [] e.text = "rate_limit" ->
            [type |-> "LLMException", text |-> "Rate limit exceeded, please try again later", arg |-> ""]
      [] e.text = "model_not_found" ->
            [type |-> "LLMException", text |-> "Model not found", arg |-> model]
      [] OTHER ->
            [type |-> "LLMException", text |-> "LLM request failed", arg |-> e.text]

\* mutant: the retry predicate accepts every exception
RetryIfAnyException(e) == TRUE

\* retry=retry_if_exception_type((httpx.TimeoutException, httpx.NetworkError))
RetryIf(e) == e.type \in {"TimeoutException", "NetworkError"}

Truthy(model) == model \notin {NoneArg, ""}

\* mutant: the fallbacks are appended whether or not a model was given
ModelsToTryAlwaysFallback(model) ==
    <<IF Truthy(model) THEN model ELSE defaultModel>>
        \o (IF enableFallback THEN fallbackModels ELSE <<>>)

\* mutant: the fallbacks come before the primary model
ModelsToTryFallbackFirst(model) ==
    (IF enableFallback /\ ~Truthy(model) THEN fallbackModels ELSE <<>>)
        \o <<IF Truthy(model) THEN model ELSE defaultModel>>

\* models_to_try = [model or default_model]; extended when fallback is on and no model
ModelsToTry(model) ==
    <<IF Truthy(model) THEN model ELSE defaultModel>>
        \o (IF enableFallback /\ ~Truthy(model) THEN fallbackModels ELSE <<>>)

\* mutant: the first failure is kept
KeepFirstError(prev, e) == IF prev = NoError THEN e ELSE prev

\* last_error = e
NextLastError(prev, e) == e

\* raise LLMException(f"All models failed. Last error: {str(last_error)}")
AllModelsFailed(last) ==
    [kind |-> "raised", type |-> "LLMException", text |-> "All models failed",
     model_used |-> "", last |-> last]

Returned(model) ==
    [kind |-> "returned", type |-> "", text |-> "", model_used |-> model, last |-> NoError]

NoResult == [kind |-> "none", type |-> "", text |-> "", model_used |-> "", last |-> NoError]

SeqsUpTo(S, n) == UNION {[1..k -> S] : k \in 0..n}

LLMIdle ==
    /\ modelArg = NoneArg
    /\ llmPc = "idle"
    /\ modelsToTry = <<>>
    /\ idx = 0
    /\ attempt = 0
    /\ lastError = NoError
    /\ callLog = <<>>
    /\ llmResult = NoResult

\* generate_explanation up to the loop: the attempt list is built
GenerateExplanation(model) ==
    /\ llmPc = "idle"
    /\ modelArg' = model
    /\ modelsToTry' = ModelsToTry(model)
    /\ idx' = 1
    /\ attempt' = 1
    /\ llmPc' = "call"
    /\ UNCHANGED <<lastError, callLog, llmResult>>
    /\ UNCHANGED <<defaultModel, fallbackModels, enableFallback>>
    /\ UNCHANGED <<sessVars, storeVars, vecVars, auxVars>>

\* one request of _call_model for current_model, the retry wrapper's decision and,
\* when the call leaves _call_model, the loop's handling of its result
CallModel(outcome) ==
    /\ llmPc = "call"
    /\ LET m == modelsToTry[idx]
           e == CallModelExcept(ApiException(outcome), m)
           \* what leaves the wrapper after the last permitted attempt
           retryError == [type |-> "RetryError", text |-> "RetryError", arg |-> e.text]
           retried == outcome # "ok" /\ RetryIf(e) /\ attempt < StopAfterAttempt
           raised == IF RetryIf(e) THEN retryError ELSE e
           last == NextLastError(lastError, raised)
       IN /\ callLog' = Append(callLog, [pos |-> idx, model |-> m, outcome |-> outcome])
          /\ IF outcome = "ok"
             THEN /\ llmPc' = "returned"
                  /\ llmResult' = Returned(m)
                  /\ UNCHANGED <<idx, attempt, lastError>>
             ELSE IF retried
             THEN /\ attempt' = attempt + 1
                  /\ UNCHANGED <<llmPc, llmResult, idx, lastError>>
             ELSE /\ lastError' = last
                  /\ attempt' = 1
                  /\ idx' = idx + 1
                  /\ IF idx = Len(modelsToTry)
                     THEN llmPc' = "raised" /\ llmResult' = AllModelsFailed(last)
                     ELSE UNCHANGED <<llmPc, llmResult>>
    /\ UNCHANGED <<defaultModel, fallbackModels, enableFallback, modelArg, modelsToTry>>
    /\ UNCHANGED <<sessVars, storeVars, vecVars, auxVars>>

(***************************************************************************)
(* generate_code_snippet: the same loop over models_to_try, the request    *)
(* sent to the client directly, without _call_model.  It runs after an     *)
(* explanation call, and a request for the model in a position that call   *)
(* reached is answered as the explanation's request was.                   *)
(***************************************************************************)

\* mutant: only the primary model is tried
SnippetModelsToTryPrimaryOnly(model) ==
    <<IF Truthy(model) THEN model ELSE defaultModel>>

\* models_to_try of generate_code_snippet
SnippetModelsToTry(model) ==
    <<IF Truthy(model) THEN model ELSE defaultModel>>
        \o (IF enableFallback /\ ~Truthy(model) THEN fallbackModels ELSE <<>>)

\* raise LLMException(f"Code generation failed with all models. Last error: ...")
SnippetFailed(last) ==
    [kind |-> "raised", type |-> "LLMException",
     text |-> "Code generation failed with all models", model_used |-> "", last |-> last]

\* {"code": ..., "model_used": current_model}
SnippetReturned(model) ==
    [kind |-> "returned", type |-> "", text |-> "", model_used |-> model, last |-> NoError]

SnipIdle ==
    /\ snArg = NoneArg
    /\ snPc = "idle"
    /\ snModels = <<>>
    /\ snIdx = 0
    /\ snLast = NoError
    /\ snLog = <<>>
    /\ snResult = NoResult

\* generate_code_snippet up to the loop
GenerateCodeSnippet(model) ==
    /\ snPc = "idle"
    /\ llmPc \in {"returned", "raised"}
    /\ snArg' = model
    /\ snModels' = SnippetModelsToTry(model)
    /\ snIdx' = 1
    /\ snPc' = "call"
    /\ UNCHANGED <<snLast, snLog, snResult>>
    /\ UNCHANGED <<sessVars, llmVars, storeVars, vecVars, pret, upd, tailVars>>

\* one chat.completions.create request for current_model and the loop's
\* handling of its result
SnippetCall(outcome) ==
    /\ snPc = "call"
    /\ \A i \in 1..Len(callLog) : callLog[i].pos = snIdx => outcome = callLog[i].outcome
    /\ LET m == snModels[snIdx]
           e == ApiException(outcome)
       IN /\ snLog' = Append(snLog, [pos |-> snIdx, model |-> m, outcome |-> outcome])
          /\ IF outcome = "ok"
             THEN /\ snPc' = "returned"
                  /\ snResult' = SnippetReturned(m)
                  /\ UNCHANGED <<snIdx, snLast>>
             ELSE /\ snLast' = e
                  /\ snIdx' = snIdx + 1
                  /\ IF snIdx = Len(snModels)
                     THEN snPc' = "raised" /\ snResult' = SnippetFailed(e)
                     ELSE UNCHANGED <<snPc, snResult>>
    /\ UNCHANGED <<snArg, snModels>>
    /\ UNCHANGED <<sessVars, llmVars, storeVars, vecVars, pret, upd, tailVars>>

(***************************************************************************)
(*                 SESSION STORE, INGEST, QUERY, SWEEP                     *)
(***************************************************************************)

\* no key session:<s> in the store
NoRec == [status |-> "absent", la |-> 0, exp |-> 0]

\* the store answers GET/KEYS for s: the key exists and its expiry has not passed
Live(s) == rec[s] # NoRec /\ now <= rec[s].exp

\* position of a status in the ingest order
Rank(status) ==
    CASE status = "initializing" -> 1
      [] status = "parsing" -> 2
      [] status = "indexing" -> 3
      [] status = "ready" -> 4
      [] OTHER -> 0

\* ticks between reading datetime.now() and the store executing SETEX
Lags == 0..(IF now < MaxLag THEN now ELSE MaxLag)

\* setex(key, session_ttl, json): the record as stored, stamped lag ticks ago
Stored(status, lag) == [status |-> status, la |-> now - lag, exp |-> now + SessionTTL]

\* create_session: status initializing, last_activity = now, TTL = session_ttl
CreateSession(lag) == Stored("initializing", lag)

\* update_session after its get succeeded: merge, restamp last_activity, setex
UpdateSession(old, updates, lag) ==
    Stored(IF updates.status = "" THEN old.status ELSE updates.status, lag)

\* delete_session: the key is removed; a store error is logged and swallowed
DeleteSession(s, delFault) == IF delFault THEN rec ELSE [rec EXCEPT ![s] = NoRec]

\* the partial updates the handlers pass to update_session
ExtractedUpdate == [status |-> "parsing"]
\* mutant: the second update of the ingest writes an earlier stage
ParsedUpdateRegresses == [status |-> "initializing"]
ParsedUpdate == [status |-> "indexing"]
IndexedUpdate == [status |-> "ready"]
QueryUpdate == [status |-> ""]

\* the except clause of the upload handlers: cleanup_temp_files (its own faults
\* swallowed), delete_session; the collection is not touched.  Store faults are
\* injected on the sweep's path only: here the delete reaches the store
IngestFailed(s) ==
    /\ rec' = DeleteSession(s, FALSE)
    /\ ipc' = [ipc EXCEPT ![s] = "end"]

sweepVars == <<swPc, timer, swNow, swTodo, swStale, swFaulted, swDelFail, swErr, cancel>>

\* upload_zip / upload_github: create_session, then extract or clone
IngestStart(s, lag, fault) ==
    /\ ipc[s] = "idle"
    /\ IF fault
       THEN /\ rec' = [rec EXCEPT ![s] = NoRec]
            /\ ipc' = [ipc EXCEPT ![s] = "end"]
       ELSE /\ rec' = [rec EXCEPT ![s] = CreateSession(lag)]
            /\ ipc' = [ipc EXCEPT ![s] = "extracted"]
    /\ UNCHANGED <<now, coll, qpc>>
    /\ UNCHANGED sweepVars
    /\ UNCHANGED <<llmVars, storeVars, vecVars, auxVars>>

\* update_session(status = parsing, metadata)
IngestSetParsing(s, lag, fault) ==
    /\ ipc[s] = "extracted"
    /\ IF fault \/ ~Live(s)
       THEN IngestFailed(s)
       ELSE /\ rec' = [rec EXCEPT ![s] = UpdateSession(rec[s], ExtractedUpdate, lag)]
            /\ ipc' = [ipc EXCEPT ![s] = "parsing"]
    /\ UNCHANGED <<now, coll, qpc>>
    /\ UNCHANGED sweepVars
    /\ UNCHANGED <<llmVars, storeVars, vecVars, auxVars>>

\* parse_codebase, get_language_stats, update_session(status = indexing, metadata)
IngestSetIndexing(s, lag, fault) ==
    /\ ipc[s] = "parsing"
    /\ IF fault \/ ~Live(s)
       THEN IngestFailed(s)
       ELSE /\ rec' = [rec EXCEPT ![s] = UpdateSession(rec[s], ParsedUpdate, lag)]
            /\ ipc' = [ipc EXCEPT ![s] = "indexing"]
    /\ UNCHANGED <<now, coll, qpc>>
    /\ UNCHANGED sweepVars
    /\ UNCHANGED <<llmVars, storeVars, vecVars, auxVars>>

IndexOutcomes == {"ok", "embed_failed", "create_failed", "insert_failed"}

\* index_codebase: generate_embeddings, create_collection (which first deletes a
\* collection of the same name), insert_embeddings
IndexCodebase(s, outcome) ==
    CASE outcome = "embed_failed" -> coll
      [] outcome = "create_failed" -> [coll EXCEPT ![s] = FALSE]
      [] OTHER -> [coll EXCEPT ![s] = TRUE]

\* await rag_service.index_codebase(session_id, chunks)
IngestIndex(s, outcome) ==
    /\ ipc[s] = "indexing"
    /\ coll' = IndexCodebase(s, outcome)
    /\ IF outcome # "ok"
       THEN IngestFailed(s)
       ELSE /\ ipc' = [ipc EXCEPT ![s] = "indexed"]
            /\ UNCHANGED rec
    /\ UNCHANGED <<now, qpc>>
    /\ UNCHANGED sweepVars
    /\ UNCHANGED <<llmVars, storeVars, vecVars, auxVars>>

\* update_session(status = ready) and the response
IngestSetReady(s, lag, fault) ==
    /\ ipc[s] = "indexed"
    /\ IF fault \/ ~Live(s)
       THEN IngestFailed(s)
       ELSE /\ rec' = [rec EXCEPT ![s] = UpdateSession(rec[s], IndexedUpdate, lag)]
            /\ ipc' = [ipc EXCEPT ![s] = "end"]
    /\ UNCHANGED <<now, coll, qpc>>
    /\ UNCHANGED sweepVars
    /\ UNCHANGED <<llmVars, storeVars, vecVars, auxVars>>

\* query_codebase: get_session, the ready check, and the get of update_session(id, {})
QueryRead(s) ==
    /\ ~qpc[s]
    /\ Live(s)
    /\ rec[s].status = "ready"
    /\ qpc' = [qpc EXCEPT ![s] = TRUE]
    /\ UNCHANGED <<now, rec, coll, ipc>>
    /\ UNCHANGED sweepVars
    /\ UNCHANGED <<llmVars, storeVars, vecVars, auxVars>>

\* the setex of update_session(id, {}): writes back the record it read (status
\* ready, the only status QueryRead lets through) with a fresh last_activity
QueryWrite(s, lag) ==
    /\ qpc[s]
    /\ rec' = [rec EXCEPT ![s] = UpdateSession([status |-> "ready"], QueryUpdate, lag)]
    /\ qpc' = [qpc EXCEPT ![s] = FALSE]
    /\ UNCHANGED <<now, coll, ipc>>
    /\ UNCHANGED sweepVars
    /\ UNCHANGED <<llmVars, storeVars, vecVars, auxVars>>

\* cleanup_session: get_session, cleanup_temp_files, delete_collection (a fault
\* is logged and swallowed), delete_session
CleanupSession(s, collFault) ==
    /\ Live(s)
    /\ coll' = [coll EXCEPT ![s] = coll[s] /\ collFault]
    /\ rec' = DeleteSession(s, FALSE)
    /\ UNCHANGED <<now, ipc, qpc>>
    /\ UNCHANGED sweepVars
    /\ UNCHANGED <<llmVars, storeVars, vecVars, auxVars>>

\* time passes: the store stops answering for keys whose expiry has passed, and
\* a running sleep comes closer to its end
Tick ==
    /\ now < MaxTime
    /\ now' = now + 1
    /\ timer' = IF swPc = "sleep" /\ timer > 0 THEN timer - 1 ELSE timer
    /\ UNCHANGED <<rec, coll, ipc, qpc, swPc, swNow, swTodo, swStale, swFaulted,
                   swDelFail, swErr, cancel>>
    /\ UNCHANGED <<llmVars, storeVars, vecVars, auxVars>>

(***************************************************************************)
(* The sweep task.  Its only suspension point is the sleep: the cleanup    *)
(* coroutines it awaits never suspend, so a cancellation is delivered at   *)
(* the sleep and nowhere else.                                             *)
(***************************************************************************)

\* subclasses of Exception that the sweep can meet; CancelledError is not one
ExceptionClasses == {"SessionNotFound", "RedisError", "ServiceError"}

\* mutant: the reclaim block has no except clause of its own
CleanupHandlerMissing(exc) == "propagate"

\* except Exception as cleanup_error: log, delete the session anyway
CleanupHandler(exc) ==
    IF exc \in ExceptionClasses THEN "delete_anyway" ELSE "propagate"

\* mutant: only the two named exceptions are handled
SweepHandlersNamedOnly(level, exc) ==
    IF level = "session" /\ exc = "SessionNotFound" THEN "next"
    ELSE IF exc = "CancelledError" THEN "break"
    ELSE "crash"

\* mutant: CancelledError is logged like any other error and the loop goes on
SweepHandlersSwallowCancel(level, exc) ==
    IF level = "session" /\ exc \in ExceptionClasses THEN "next"
    ELSE IF exc = "CancelledError" \/ exc \in ExceptionClasses THEN "loop"
    ELSE "crash"

\* the except clauses of the loop body, innermost first: per session
\* (SessionNotFoundException: continue; Exception: log), then per cycle
\* (CancelledError: break; Exception: log and loop)
SweepHandlers(level, exc) ==
    IF level = "session" /\ exc \in ExceptionClasses THEN "next"
    ELSE IF exc = "CancelledError" THEN "break"
    ELSE IF exc \in ExceptionClasses THEN "loop"
    ELSE "crash"

\* get_all_sessions: the live ids, or [] when the store fails (logged)
GetAllSessions(listFault) == IF listFault THEN {} ELSE {s \in SessionIds : Live(s)}

\* where the task goes when a handler has decided
SweepGoto(disposition) ==
    CASE disposition = "next" -> "cycle"
      [] disposition = "loop" -> "sleep"
      [] disposition = "break" -> "done"
      [] OTHER -> "crashed"

\* mutant: a session idle for exactly the TTL is reclaimed too
InactiveAtTtl(current_time, last_activity) == current_time - last_activity >= SessionTTL

\* inactive_duration > settings.session_ttl
Inactive(current_time, last_activity) == current_time - last_activity > SessionTTL

\* asyncio.sleep returns: list the sessions, take current_time
SweepWake(listFault) ==
    /\ swPc = "sleep"
    /\ cancel # "requested"
    /\ timer = 0
    /\ swPc' = "cycle"
    /\ swNow' = now
    /\ swTodo' = GetAllSessions(listFault)
    /\ swErr' = IF listFault THEN "list"
                ELSE IF swErr \in {"list", "get"} THEN "past" ELSE "none"
    /\ UNCHANGED <<now, rec, coll, ipc, qpc, timer, swStale, swFaulted, swDelFail, cancel>>
    /\ UNCHANGED <<llmVars, storeVars, vecVars, auxVars>>

\* the task leaves the cycle: what the cycle held is dropped
LeaveCycle(goto) ==
    /\ swPc' = goto
    /\ swTodo' = {}
    /\ swNow' = 0
    /\ swStale' = {}
    /\ swFaulted' = {}
    /\ swDelFail' = {}
    /\ timer' = IF goto = "sleep" THEN CleanupInterval ELSE 0

\* one iteration of the for loop over session_ids (the list's order is the
\* store's, so any remaining id may come next)
SweepExamine(s, getFault, svcFault, filesFault, collFault, delFault) ==
    /\ swPc = "cycle"
    /\ s \in swTodo
    /\ LET getExc == IF getFault THEN "RedisError"
                     ELSE IF ~Live(s) THEN "SessionNotFound" ELSE "none"
           stale == getExc = "none" /\ Inactive(swNow, rec[s].la)
           caught == CleanupHandler("ServiceError") = "delete_anyway"
           cleaned == stale /\ ~svcFault
           deleteCalled == stale /\ (~svcFault \/ caught)
           escaped == IF getExc # "none" THEN getExc
                      ELSE IF stale /\ svcFault /\ ~caught THEN "ServiceError"
                      ELSE "none"
           disposition == IF escaped = "none" THEN "next"
                          ELSE SweepHandlers("session", escaped)
       IN /\ coll' = IF cleaned THEN [coll EXCEPT ![s] = coll[s] /\ collFault] ELSE coll
          /\ rec' = IF deleteCalled THEN DeleteSession(s, delFault) ELSE rec
          /\ swErr' = IF getExc = "RedisError" THEN "get" ELSE swErr
          /\ IF disposition = "next"
             THEN /\ swTodo' = swTodo \ {s}
                  /\ swStale' = IF stale THEN swStale \cup {s} ELSE swStale
                  /\ swFaulted' = IF stale /\ (svcFault \/ filesFault \/ collFault)
                                  THEN swFaulted \cup {s} ELSE swFaulted
                  /\ swDelFail' = IF deleteCalled /\ delFault
                                  THEN swDelFail \cup {s} ELSE swDelFail
                  /\ UNCHANGED <<swPc, swNow, timer>>
             ELSE LeaveCycle(SweepGoto(disposition))
    /\ UNCHANGED <<now, ipc, qpc, cancel>>
    /\ UNCHANGED <<llmVars, storeVars, vecVars, auxVars>>

\* the for loop is exhausted: back to the top of while True, into the sleep
SweepCycleEnd ==
    /\ swPc = "cycle"
    /\ swTodo = {}
    /\ LeaveCycle("sleep")
    /\ UNCHANGED <<now, rec, coll, ipc, qpc, swErr, cancel>>
    /\ UNCHANGED <<llmVars, storeVars, vecVars, auxVars>>

\* lifespan shutdown: cleanup_task.cancel(), then await cleanup_task.  It runs on
\* the task's own event loop, so only while the task is suspended in its sleep
Shutdown ==
    /\ cancel = "none"
    /\ swPc = "sleep"
    /\ cancel' = "requested"
    /\ UNCHANGED <<now, rec, coll, ipc, qpc, swPc, timer, swNow, swTodo,
                   swStale, swFaulted, swDelFail, swErr>>
    /\ UNCHANGED <<llmVars, storeVars, vecVars, auxVars>>

\* CancelledError is raised at the sleep and meets the cycle's handlers
SweepCancelled ==
    /\ swPc = "sleep"
    /\ cancel = "requested"
    /\ cancel' = "delivered"
    /\ swPc' = SweepGoto(SweepHandlers("cycle", "CancelledError"))
    /\ timer' = IF swPc' = "sleep" THEN CleanupInterval ELSE 0
    /\ UNCHANGED <<now, rec, coll, ipc, qpc, swNow, swTodo,
                   swStale, swFaulted, swDelFail, swErr>>
    /\ UNCHANGED <<llmVars, storeVars, vecVars, auxVars>>

(***************************************************************************)
(* The session store's interface, call by call.  A value is stored as the  *)
(* JSON text of a dict of strings, numbers and dicts, which json.loads     *)
(* gives back as written; the dict itself stands for that text.            *)
(***************************************************************************)

\* no key session:<id>
NoKey == [present |-> FALSE, data |-> <<>>, exp |-> 0]

\* the store answers for the key: it was set and its expiry has not passed
KeyLive(id) == kv[id].present /\ now <= kv[id].exp

\* redis TTL of a live key
Ttl(id) == kv[id].exp - now

\* what a client of the store can observe of kvv at time t
View(kvv, t) ==
    [id \in SessionIds |->
        IF kvv[id].present /\ t <= kvv[id].exp THEN kvv[id] ELSE NoKey]

\* setex(key, settings.session_ttl, json.dumps(session_data))
Setex(id, data) ==
    [kv EXCEPT ![id] = [present |-> TRUE, data |-> data, exp |-> now + SessionTTL]]

\* mutant: a new record starts in a later stage
SessionDataParsing(id) ==
    [session_id |-> id, created_at |-> now, last_activity |-> now,
     temp_folder |-> id, status |-> "parsing", metadata |-> <<>>]

\* session_data of create_session
SessionData(id) ==
    [session_id |-> id, created_at |-> now, last_activity |-> now,
     temp_folder |-> id, status |-> "initializing", metadata |-> <<>>]

\* dict.update(updates)
DictUpdate(d, u) ==
    [f \in (DOMAIN d) \cup (DOMAIN u) |-> IF f \in DOMAIN u THEN u[f] ELSE d[f]]

\* mutant: last_activity is stamped before the caller's fields are merged
StampThenMerge(d, u, t) == DictUpdate(DictUpdate(d, [last_activity |-> t]), u)

\* session_data.update(updates); session_data["last_activity"] = now
MergeThenStamp(d, u, t) == DictUpdate(DictUpdate(d, u), [last_activity |-> t])

StoreOk(data) == [kind |-> "ok", type |-> "", data |-> data]
StoreRaised(type) == [kind |-> "raised", type |-> type, data |-> <<>>]

\* mutant: a missing key reads as an empty record
GetSessionOrEmpty(id, fault) ==
    IF fault THEN StoreRaised("RedisError")
    ELSE IF ~KeyLive(id) THEN StoreOk(<<>>)
    ELSE StoreOk(kv[id].data)

\* get_session: the value of the key, SessionNotFoundException when the store
\* has none, the store's own error re-raised
GetSession(id, fault) ==
    IF fault THEN StoreRaised("RedisError")
    ELSE IF ~KeyLive(id) THEN StoreRaised("SessionNotFoundException")
    ELSE StoreOk(kv[id].data)

\* a stamp a caller may pass as last_activity: no time of the clock
ForeignStamp == MaxTime + 1

\* partial updates callers pass: none, a status, status and metadata, and one
\* that itself names last_activity
UpdatesSet ==
    { <<>>,
      [status |-> "parsing"],
      [status |-> "ready", metadata |-> [upload_type |-> "zip"]],
      [last_activity |-> ForeignStamp] }

\* the record of a call: what was called, with what, when, and how it ended
Call(op, id, updates, fault, res) ==
    [op |-> op, id |-> id, updates |-> updates, fault |-> fault, at |-> now,
     kind |-> res.kind, type |-> res.type, data |-> res.data]

NoCall == [op |-> "none", id |-> "", updates |-> <<>>, fault |-> FALSE, at |-> 0,
           kind |-> "", type |-> "", data |-> <<>>]

StoreIdle ==
    /\ kv = [id \in SessionIds |-> NoKey]
    /\ issued = {}
    /\ ret = NoCall

\* create_session: a fresh identifier, the initial record, setex; a store
\* error is logged and re-raised
StoreCreate(id, fault) ==
    /\ id \notin issued
    /\ issued' = issued \cup {id}
    /\ kv' = IF fault THEN kv ELSE Setex(id, SessionData(id))
    /\ ret' = Call("create", id, <<>>, fault,
                   IF fault THEN StoreRaised("RedisError") ELSE StoreOk(<<>>))
    /\ UNCHANGED <<sessVars, llmVars, vecVars, auxVars>>

\* get_session
StoreGet(id, fault) ==
    /\ ret' = Call("get", id, <<>>, fault, GetSession(id, fault))
    /\ UNCHANGED <<kv, issued>>
    /\ UNCHANGED <<sessVars, llmVars, vecVars, auxVars>>

\* update_session: get, merge, stamp, setex; whatever is raised is re-raised
StoreUpdate(id, updates, fault) ==
    /\ LET got == GetSession(id, fault)
       IN IF got.kind = "raised"
          THEN /\ ret' = Call("update", id, updates, fault, got)
               /\ UNCHANGED kv
          ELSE /\ kv' = Setex(id, MergeThenStamp(got.data, updates, now))
               /\ ret' = Call("update", id, updates, fault, StoreOk(<<>>))
    /\ UNCHANGED issued
    /\ UNCHANGED <<sessVars, llmVars, vecVars, auxVars>>

\* delete_session: the key is removed; a store error is logged, not raised
StoreDelete(id, fault) ==
    /\ kv' = IF fault THEN kv ELSE [kv EXCEPT ![id] = NoKey]
    /\ ret' = Call("delete", id, <<>>, fault, StoreOk(<<>>))
    /\ UNCHANGED issued
    /\ UNCHANGED <<sessVars, llmVars, vecVars, auxVars>>

(***************************************************************************)
(* The vector index (services/vector_service.py over the Chroma client),   *)
(* index_codebase and process_query (services/rag_service.py), and the     *)
(* upload and query handlers as whole calls.  An embedding is one number   *)
(* and the distance of two embeddings the square of their difference.      *)
(***************************************************************************)

ChunkIds == {"c1", "c2"}
\* chunk_counter of the parser
ChunkNo == [c \in ChunkIds |-> IF c = "c1" THEN 1 ELSE 2]
Vectors == {1, 2}

\* chunk lists as the parser numbers them: distinct identifiers, ascending
ChunkLists ==
    {sq \in SeqsUpTo(ChunkIds, MaxChunks) :
        \A i, j \in 1..Len(sq) : i < j => ChunkNo[sq[i]] < ChunkNo[sq[j]]}

\* embedding lists a caller of insert_embeddings may hand over
VectorLists ==
    {sq \in SeqsUpTo(Vectors, MaxChunks) :
        \A i \in 1..Len(sq) : i > 1 => sq[i] # sq[i - 1]}

\* top_k values of search_similar
TopKs == 0..(MaxChunks + 1)

\* chunk.code
Code(c) == <<"code", c>>

\* the local model's embedding of a chunk's context text
EncodeText == [c \in ChunkIds |-> IF c = "c2" THEN 2 ELSE 1]

\* no collection session_<s>
NoColl == [exists |-> FALSE, items |-> {}]
EmptyColl == [exists |-> TRUE, items |-> {}]

VecOk(value) == [kind |-> "ok", type |-> "", value |-> value]
VecRaised(type) == [kind |-> "raised", type |-> type, value |-> <<>>]

\* mutant: every batch is cut from the head of the list
SliceFromHead(sq, i, n) == SubSeq(sq, 1, IF n < Len(sq) THEN n ELSE Len(sq))

\* ids[i:i + batch_size] for the 0-based offset i
Slice(sq, i, n) ==
    SubSeq(sq, i + 1, IF i + n < Len(sq) THEN i + n ELSE Len(sq))

\* collection.add of the client: ids and embeddings must pair up; an
\* identifier the collection already holds keeps its entry
ChromaAddAccepts(ids, embs) == Len(ids) > 0 /\ Len(ids) = Len(embs)

ChromaAdd(items, ids, embs) ==
    items \cup {[id |-> ids[i], code |-> Code(ids[i]), vec |-> embs[i]] :
                    i \in {j \in 1..Len(ids) : \A e \in items : e.id # ids[j]}}

RECURSIVE InsertBatches(_, _, _, _, _)
\* the batch loop of insert_embeddings from offset i on; failAt numbers the
\* batch at which the backend fails (0: none)
InsertBatches(items, ids, embs, i, failAt) ==
    IF i >= Len(ids) THEN [items |-> items, ok |-> TRUE]
    ELSE LET bi == Slice(ids, i, BatchSize)
             be == Slice(embs, i, BatchSize)
         IN IF failAt = (i \div BatchSize) + 1 \/ ~ChromaAddAccepts(bi, be)
            THEN [items |-> items, ok |-> FALSE]
            ELSE InsertBatches(ChromaAdd(items, bi, be), ids, embs, i + BatchSize, failAt)

\* insert_embeddings: get_collection, the lists, the batch loop; every
\* exception leaves as VectorDBException
InsertEmbeddings(cl, chunks, embs, failAt) ==
    IF ~cl.exists
    THEN [coll |-> cl, res |-> VecRaised("VectorDBException")]
    ELSE LET done == InsertBatches(cl.items, chunks, embs, 0, failAt)
         IN [coll |-> [cl EXCEPT !.items = done.items],
             res |-> IF done.ok THEN VecOk(<<>>) ELSE VecRaised("VectorDBException")]

\* the batch at which the backend fails an insert (0: at none)
FailAts == 0..MaxChunks

CreateFaults == {"none", "create_failed", "unreachable"}

\* mutant: the collection is created only when there is none
CreateCollectionKeep(cl, fault) ==
    CASE fault = "unreachable" -> [coll |-> cl, res |-> VecRaised("VectorDBException")]
      [] fault = "create_failed" -> [coll |-> NoColl, res |-> VecRaised("VectorDBException")]
      [] OTHER -> [coll |-> IF cl.exists THEN cl ELSE EmptyColl, res |-> VecOk(<<>>)]

\* create_collection: delete_collection (its error ignored), create_collection
CreateCollection(cl, fault) ==
    CASE fault = "unreachable" -> [coll |-> cl, res |-> VecRaised("VectorDBException")]
      [] fault = "create_failed" -> [coll |-> NoColl, res |-> VecRaised("VectorDBException")]
      [] OTHER -> [coll |-> EmptyColl, res |-> VecOk(<<>>)]

\* mutant: the client's error for a missing collection is passed on
DeleteCollectionStrict(cl, fault) ==
    IF fault \/ ~cl.exists
    THEN [coll |-> cl, res |-> VecRaised("VectorDBException")]
    ELSE [coll |-> NoColl, res |-> VecOk(<<>>)]

\* delete_collection: the client's delete; whatever it raises is logged only
DeleteCollection(cl, fault) ==
    [coll |-> IF fault THEN cl ELSE NoColl, res |-> VecOk(<<>>)]

Distance(q, v) == (q - v) * (q - v)

RECURSIVE NearestFirst(_, _)
\* the entries of a collection, nearest to q first
NearestFirst(items, q) ==
    IF items = {} THEN <<>>
    ELSE LET e == CHOOSE x \in items :
                      \A y \in items :
                          \/ Distance(q, x.vec) < Distance(q, y.vec)
                          \/ Distance(q, x.vec) = Distance(q, y.vec) /\ ChunkNo[x.id] <= ChunkNo[y.id]
         IN <<e>> \o NearestFirst(items \ {e}, q)

\* collection.query(n_results = k) of the client: the k nearest entries as
\* parallel lists, fewer when the collection holds fewer
ChromaQuery(items, q, k) ==
    LET all == NearestFirst(items, q)
        n == IF k < Len(all) THEN k ELSE Len(all)
    IN [ids |-> [i \in 1..n |-> all[i].id],
        documents |-> [i \in 1..n |-> all[i].code],
        distances |-> [i \in 1..n |-> Distance(q, all[i].vec)]]

\* mutant: the formatted list runs from the last result to the first
FormatResultsReversed(results) ==
    [i \in 1..Len(results.ids) |->
        [id |-> results.ids[Len(results.ids) + 1 - i],
         code |-> results.documents[Len(results.ids) + 1 - i],
         distance |-> results.distances[Len(results.ids) + 1 - i]]]

\* the loop over results['ids'][0] building the chunk dicts
FormatResults(results) ==
    [i \in 1..Len(results.ids) |->
        [id |-> results.ids[i], code |-> results.documents[i],
         distance |-> results.distances[i]]]

\* mutant: a missing collection reads as an empty one
SearchSimilarLenient(cl, q, k, fault) ==
    IF fault \/ k <= 0 THEN VecRaised("VectorDBException")
    ELSE VecOk(FormatResults(ChromaQuery(cl.items, q, k)))

\* search_similar: get_collection, query, format; every exception leaves as
\* VectorDBException (a missing collection, a top_k the client rejects)
SearchSimilar(cl, q, k, fault) ==
    IF fault \/ ~cl.exists \/ k <= 0 THEN VecRaised("VectorDBException")
    ELSE VecOk(FormatResults(ChromaQuery(cl.items, q, k)))

\* generate_embeddings: one embedding per chunk, [] for no chunks
GenerateEmbeddings(chunks) == [i \in 1..Len(chunks) |-> EncodeText[chunks[i]]]

\* mutant: the collection is created before the chunks are embedded
IndexCodebaseCreateFirst(cl, chunks, outcome, failAt) ==
    LET made == CreateCollection(cl, IF outcome = "create_failed"
                                       THEN "create_failed" ELSE "none")
        embeddings == GenerateEmbeddings(chunks)
        put == InsertEmbeddings(made.coll, chunks, embeddings,
                                IF outcome = "insert_failed" THEN failAt ELSE 0)
    IN IF made.res.kind = "raised" THEN made
       ELSE IF outcome = "embed_failed"
       THEN [coll |-> made.coll, res |-> VecRaised("EmbeddingException")]
       ELSE IF put.res.kind = "raised" THEN put
       ELSE [coll |-> put.coll,
             res |-> VecOk([chunks_indexed |-> Len(chunks),
                            embeddings_generated |-> Len(embeddings)])]

\* index_codebase on a collection: generate_embeddings, create_collection,
\* insert_embeddings; what is raised is logged and re-raised
IndexCodebaseOn(cl, chunks, outcome, failAt) ==
    IF outcome = "embed_failed"
    THEN [coll |-> cl, res |-> VecRaised("EmbeddingException")]
    ELSE LET embeddings == GenerateEmbeddings(chunks)
             made == CreateCollection(cl, IF outcome = "create_failed"
                                            THEN "create_failed" ELSE "none")
             put == InsertEmbeddings(made.coll, chunks, embeddings,
                                     IF outcome = "insert_failed" THEN failAt ELSE 0)
         IN IF made.res.kind = "raised" THEN made
            ELSE IF put.res.kind = "raised" THEN put
            ELSE [coll |-> put.coll,
                  res |-> VecOk([chunks_indexed |-> Len(chunks),
                                 embeddings_generated |-> Len(embeddings)])]

\* mutant: the handler marks the session ready whatever index_codebase did
UploadEndsReady(s, res, delFault) == [rec EXCEPT ![s] = Stored("ready", 0)]

\* the end of an upload handler: status ready after index_codebase returned;
\* after it raised, delete_session, whose own store error leaves the record
UploadEnds(s, res, delFault) ==
    IF res.kind = "ok"
    THEN [rec EXCEPT ![s] = UpdateSession(Stored("indexing", 0), IndexedUpdate, 0)]
    ELSE [rec EXCEPT ![s] = IF delFault THEN Stored("indexing", 0) ELSE NoRec]

\* the call of the vector index or pipeline: what, on what, and how it ended
VCall(op, s, args, before, res) ==
    [op |-> op, s |-> s, args |-> args, before |-> before,
     kind |-> res.kind, type |-> res.type, value |-> res.value]

NoArgs == [chunks |-> <<>>, vectors |-> <<>>, q |-> 0, k |-> 0]

NoVCall == VCall("none", "", NoArgs, NoColl, VecOk(<<>>))

VecIdle ==
    /\ vdb = [s \in SessionIds |-> NoColl]
    /\ ixFailed = {}
    /\ vret = NoVCall

\* create_collection(session_id)
VecCreate(s, fault) ==
    /\ LET r == CreateCollection(vdb[s], fault)
       IN /\ vdb' = [vdb EXCEPT ![s] = r.coll]
          /\ vret' = VCall("create_collection", s, NoArgs, vdb[s], r.res)
    /\ UNCHANGED ixFailed
    /\ UNCHANGED <<sessVars, llmVars, storeVars, auxVars>>

\* insert_embeddings(session_id, chunks, embeddings)
VecInsert(s, chunks, vectors, failAt) ==
    /\ LET r == InsertEmbeddings(vdb[s], chunks, vectors, failAt)
       IN /\ vdb' = [vdb EXCEPT ![s] = r.coll]
          /\ vret' = VCall("insert", s, [NoArgs EXCEPT !.chunks = chunks, !.vectors = vectors],
                           vdb[s], r.res)
    /\ UNCHANGED ixFailed
    /\ UNCHANGED <<sessVars, llmVars, storeVars, auxVars>>

\* search_similar(session_id, query_embedding, top_k)
VecSearch(s, q, k, fault) ==
    /\ vret' = VCall("search", s, [NoArgs EXCEPT !.q = q, !.k = k], NoColl,
                     SearchSimilar(vdb[s], q, k, fault))
    /\ UNCHANGED <<vdb, ixFailed>>
    /\ UNCHANGED <<sessVars, llmVars, storeVars, auxVars>>

\* delete_collection(session_id)
VecDelete(s, fault) ==
    /\ LET r == DeleteCollection(vdb[s], fault)
       IN /\ vdb' = [vdb EXCEPT ![s] = r.coll]
          /\ vret' = VCall("delete_collection", s, NoArgs, vdb[s], r.res)
    /\ UNCHANGED ixFailed
    /\ UNCHANGED <<sessVars, llmVars, storeVars, auxVars>>

\* index_codebase(session_id, chunks)
VecIndex(s, chunks, outcome, failAt) ==
    /\ LET r == IndexCodebaseOn(vdb[s], chunks, outcome, failAt)
       IN /\ vdb' = [vdb EXCEPT ![s] = r.coll]
          /\ vret' = VCall("index", s, [NoArgs EXCEPT !.chunks = chunks], vdb[s], r.res)
    /\ UNCHANGED ixFailed
    /\ UNCHANGED <<sessVars, llmVars, storeVars, auxVars>>

\* an upload handler from create_session to its response: the session is new,
\* index_codebase runs on its chunks, and the handler ends on its outcome
VecIngest(s, chunks, outcome, failAt, delFault) ==
    /\ ipc[s] = "idle"
    /\ LET r == IndexCodebaseOn(vdb[s], chunks, outcome, failAt)
       IN /\ vdb' = [vdb EXCEPT ![s] = r.coll]
          /\ rec' = UploadEnds(s, r.res, delFault)
          /\ ixFailed' = IF r.res.kind = "raised" THEN ixFailed \cup {s} ELSE ixFailed
          /\ vret' = VCall("ingest", s, [NoArgs EXCEPT !.chunks = chunks], NoColl, r.res)
    /\ ipc' = [ipc EXCEPT ![s] = "end"]
    /\ UNCHANGED <<now, coll, qpc>>
    /\ UNCHANGED sweepVars
    /\ UNCHANGED <<llmVars, storeVars, auxVars>>

\* process_query: search_similar, then generate_explanation on what it found;
\* what is raised is logged and re-raised
ProcessQuery(cl, q, searchFault, llmOk) ==
    LET found == SearchSimilar(cl, q, MaxChunksPerQuery, searchFault)
    IN IF found.kind = "raised"
       THEN [kind |-> "raised", type |-> found.type,
             value |-> [results |-> <<>>, llm |-> FALSE]]
       ELSE [kind |-> IF llmOk THEN "ok" ELSE "raised",
             type |-> IF llmOk THEN "" ELSE "LLMException",
             value |-> [results |-> IF llmOk THEN found.value ELSE <<>>, llm |-> TRUE]]

\* query_codebase: get_session, the ready check, update_session(id, {}),
\* process_query; a missing session answers 404, anything else raised 500
VecQuery(s, q, searchFault, llmOk) ==
    /\ LET refused == [results |-> <<>>, llm |-> FALSE]
           r == IF ~Live(s)
                THEN [kind |-> "raised", type |-> "HTTP404", value |-> refused]
                ELSE IF rec[s].status # "ready"
                THEN [kind |-> "raised", type |-> "HTTP500", value |-> refused]
                ELSE LET p == ProcessQuery(vdb[s], q, searchFault, llmOk)
                     IN [p EXCEPT !.type = IF p.kind = "raised" THEN "HTTP500" ELSE ""]
       IN /\ vret' = VCall("query", s, [NoArgs EXCEPT !.q = q], NoColl, r)
          /\ rec' = IF Live(s) /\ rec[s].status = "ready"
                    THEN [rec EXCEPT ![s] = UpdateSession(rec[s], QueryUpdate, 0)]
                    ELSE rec
    /\ UNCHANGED <<vdb, ixFailed>>
    /\ UNCHANGED <<now, coll, ipc, qpc>>
    /\ UNCHANGED sweepVars
    /\ UNCHANGED <<llmVars, storeVars, auxVars>>

(***************************************************************************)
(* The chunker (services/parser_service.py).  A text is a sequence of      *)
(* characters.  In a JavaScript text the character "F" stands for one      *)
(* match of func_pattern, a function head up to and including its opening  *)
(* brace.  A Python text is kept line by line, a line being a def, an      *)
(* async def or a class head or a plain statement at an indentation, which *)
(* is what ast.parse makes its tree from.                                  *)
(***************************************************************************)

PyKinds == {"def", "async def", "class", "stmt"}
PyLines == [kind : PyKinds, indent : 0..MaxIndent]
JsChars == {"F", "{", "}", "\n"}
GenericChars == {"a", "\n"}

\* the files of a codebase by extension: whether open() succeeds and the text
PyFiles == [ext : {".py"}, readable : BOOLEAN, body : SeqsUpTo(PyLines, MaxLines)]
JsFiles == [ext : {".js"}, readable : BOOLEAN, body : SeqsUpTo(JsChars, MaxText)]
GenericFiles == [ext : {".txt"}, readable : BOOLEAN, body : SeqsUpTo(GenericChars, MaxText)]
AllFiles == PyFiles \cup JsFiles \cup GenericFiles

\* content[:n].count('\n')
CountNewlines(content, n) == Cardinality({i \in 1..n : i <= Len(content) /\ content[i] = "\n"})

RECURSIVE SplitLines(_)
\* content.splitlines()
SplitLines(content) ==
    IF content = <<>> THEN <<>>
    ELSE IF \A i \in 1..Len(content) : content[i] # "\n" THEN <<content>>
    ELSE LET k == CHOOSE i \in 1..Len(content) :
                      content[i] = "\n" /\ \A j \in 1..(i - 1) : content[j] # "\n"
         IN <<SubSeq(content, 1, k - 1)>> \o SplitLines(SubSeq(content, k + 1, Len(content)))

RECURSIVE Digits(_)
Digits(n) == IF n < 10 THEN <<n>> ELSE Digits(n \div 10) \o <<n % 10>>

\* f"chunk_{self.chunk_counter:06d}"
ChunkId(n) ==
    LET d == Digits(n)
    IN <<"chunk_">> \o [i \in 1..(IF Len(d) < IdWidth THEN IdWidth - Len(d) ELSE 0) |-> 0] \o d

\* mutant: the counter is advanced on every other chunk only
NextCounterSkipping(counter) == IF counter % 2 = 1 THEN counter ELSE counter + 1

\* self.chunk_counter += 1
NextCounter(counter) == counter + 1

RECURSIVE CreateChunks(_, _)
\* _create_chunk for each chunk a parser makes, in the order it makes them
CreateChunks(made, counter) ==
    IF made = <<>> THEN [chunks |-> <<>>, counter |-> counter]
    ELSE LET n == NextCounter(counter)
             rest == CreateChunks(Tail(made), n)
         IN [chunks |-> <<[Head(made) EXCEPT !.id = ChunkId(n)]>> \o rest.chunks,
             counter |-> rest.counter]

Chunk(type, name, code, path, start, end) ==
    [id |-> <<>>, type |-> type, name |-> name, code |-> code, file_path |-> path,
     start_line |-> start, end_line |-> end]

\* the module chunk of the Python and JavaScript parsers
ModuleChunk(content, lines, path) ==
    Chunk("module", <<"stem", path>>, Slice(content, 0, ModulePrefix), path, 1, Len(lines))

\* ast.parse accepts the text: a head is followed by a deeper body, nothing
\* else is indented
SyntaxOk(body) ==
    /\ \A i \in 1..Len(body) :
          IF i > 1 /\ body[i - 1].kind # "stmt"
          THEN body[i].indent = body[i - 1].indent + 1
          ELSE body[i].indent <= (IF i = 1 THEN 0 ELSE body[i - 1].indent)
    /\ body # <<>> => body[Len(body)].kind = "stmt"

\* node.end_lineno of the definition whose head is line i
EndLineno(body, i) ==
    CHOOSE j \in i..Len(body) :
        /\ \A k \in (i + 1)..j : body[k].indent > body[i].indent
        /\ j = Len(body) \/ body[j + 1].indent <= body[i].indent

RECURSIVE AstWalk(_, _)
\* ast.walk(tree), breadth first: the definitions' head lines from depth d on
AstWalk(body, d) ==
    IF d > MaxIndent THEN <<>>
    ELSE LET AtDepth(i) == body[i].kind # "stmt" /\ body[i].indent = d
         IN SelectSeq([i \in 1..Len(body) |-> i], AtDepth) \o AstWalk(body, d + 1)

\* isinstance(node, ast.FunctionDef) or isinstance(node, ast.ClassDef)
NodeChunked(body, i) == body[i].kind \in {"def", "class"}

\* _parse_python_function and _parse_python_class
PythonNodeChunk(body, i, path) ==
    Chunk(IF body[i].kind = "class" THEN "class" ELSE "function", <<"name", i>>,
          Slice(body, i - 1, EndLineno(body, i) - i + 1), path, i, EndLineno(body, i))

\* mutant: the module chunk is made before the text is parsed
ParsePythonModuleFirst(f, path) ==
    IF ~f.readable THEN <<>>
    ELSE IF ~SyntaxOk(f.body) THEN <<ModuleChunk(f.body, f.body, path)>>
    ELSE LET Chunked(i) == NodeChunked(f.body, i)
             nodes == SelectSeq(AstWalk(f.body, 0), Chunked)
         IN <<ModuleChunk(f.body, f.body, path)>>
               \o [k \in 1..Len(nodes) |-> PythonNodeChunk(f.body, nodes[k], path)]

\* parse_python_file: nothing when open() or ast.parse raise, else the module
\* chunk and a chunk for every FunctionDef and ClassDef node of the walk
ParsePythonFile(f, path) ==
    IF ~f.readable \/ ~SyntaxOk(f.body) THEN <<>>
    ELSE LET Chunked(i) == NodeChunked(f.body, i)
             nodes == SelectSeq(AstWalk(f.body, 0), Chunked)
         IN <<ModuleChunk(f.body, f.body, path)>>
               \o [k \in 1..Len(nodes) |-> PythonNodeChunk(f.body, nodes[k], path)]

RECURSIVE BraceScan(_, _, _)
\* the while loop over content[pos] that follows a match: pos when it ends
BraceScan(content, pos, brace_count) ==
    IF pos < Len(content) /\ brace_count > 0
    THEN BraceScan(content, pos + 1,
                   CASE content[pos + 1] \in {"{", "F"} -> brace_count + 1
                     [] content[pos + 1] = "}" -> brace_count - 1
                     [] OTHER -> brace_count)
    ELSE pos

\* the function chunk of the match at character i
JsFunctionChunk(content, i, path) ==
    LET lines == SplitLines(content)
        start_line == CountNewlines(content, i - 1) + 1
        end_line == CountNewlines(content, BraceScan(content, i, 1)) + 1
    IN Chunk("function", <<"name", i>>, Slice(lines, start_line - 1, end_line - start_line + 1),
             path, start_line, end_line)

\* parse_javascript_file: a function chunk per match, then the module chunk
ParseJavascriptFile(f, path) ==
    IF ~f.readable THEN <<>>
    ELSE LET IsMatch(i) == f.body[i] = "F"
             matches == SelectSeq([i \in 1..Len(f.body) |-> i], IsMatch)
         IN [k \in 1..Len(matches) |-> JsFunctionChunk(f.body, matches[k], path)]
               \o <<ModuleChunk(f.body, SplitLines(f.body), path)>>

\* parse_generic_file: a module chunk per window of chunk_size characters
ParseGenericFile(f, path) ==
    IF ~f.readable THEN <<>>
    ELSE [k \in 1..((Len(f.body) + ChunkSize - 1) \div ChunkSize) |->
            LET i == (k - 1) * ChunkSize
                chunk_content == Slice(f.body, i, ChunkSize)
            IN Chunk("module", <<"stem", path, "_part_", k>>, chunk_content, path,
                     CountNewlines(f.body, i) + 1,
                     CountNewlines(f.body, i + Len(chunk_content)) + 1)]

\* parse_file: the parser of the extension, parse_generic_file for any other
ParseFileChunks(f, path) ==
    CASE f.ext = ".py" -> ParsePythonFile(f, path)
      [] f.ext = ".js" -> ParseJavascriptFile(f, path)
      [] OTHER -> ParseGenericFile(f, path)

RECURSIVE ParseFrom(_, _, _)
\* parse_codebase from the i-th file on; a file's relative path is its place
ParseFrom(files, i, counter) ==
    IF i > Len(files) THEN <<>>
    ELSE LET r == CreateChunks(ParseFileChunks(files[i], i), counter)
         IN r.chunks \o ParseFrom(files, i + 1, r.counter)

\* files a run is made of: good, failing and empty ones of each kind
RunFiles ==
    { [ext |-> ".py", readable |-> TRUE,
       body |-> <<[kind |-> "def", indent |-> 0], [kind |-> "stmt", indent |-> 1]>>],
      [ext |-> ".py", readable |-> TRUE, body |-> <<[kind |-> "class", indent |-> 0]>>],
      [ext |-> ".py", readable |-> FALSE, body |-> <<[kind |-> "stmt", indent |-> 0]>>],
      [ext |-> ".js", readable |-> TRUE, body |-> <<"F", "}">>],
      [ext |-> ".js", readable |-> FALSE, body |-> <<"F", "}">>],
      [ext |-> ".txt", readable |-> TRUE, body |-> <<"a", "\n", "a">>],
      [ext |-> ".txt", readable |-> TRUE, body |-> <<>>],
      [ext |-> ".txt", readable |-> FALSE, body |-> <<"a">>] }

ParseIdle == pret = [op |-> "none", files |-> <<>>, chunks |-> <<>>]

\* parse_codebase of one file by a new ParserService
ParseFile(f) ==
    /\ pret.op = "none"
    /\ pret' = [op |-> "parse_file", files |-> <<f>>, chunks |-> ParseFrom(<<f>>, 1, 0)]
    /\ UNCHANGED <<sessVars, llmVars, storeVars, vecVars, snipVars, upd, tailVars>>

\* parse_codebase of a list of files by a new ParserService
ParseCodebase(files) ==
    /\ pret.op = "none"
    /\ pret' = [op |-> "parse_codebase", files |-> files, chunks |-> ParseFrom(files, 1, 0)]
    /\ UNCHANGED <<sessVars, llmVars, storeVars, vecVars, snipVars, upd, tailVars>>

(***************************************************************************)
(* update_session command by command (services/session_service.py 86-98): *)
(* GET, then merge and stamp in the caller, then SETEX.  Callers of        *)
(* different requests or server processes share the store, so the commands *)
(* of two calls interleave with each other, with delete_session, with      *)
(* create_session and with the passing of time.                            *)
(***************************************************************************)

Callers == {"u1", "u2"}

\* the session the callers race on
RaceIds == {"s1"}

\* the maps the handlers pass: upload.py 62, 78 and 90, query.py 54
RaceUpdates ==
    { [status |-> "parsing", metadata |-> [upload_type |-> "zip"]],
      [status |-> "indexing", metadata |-> [chunk_count |-> 1]],
      [status |-> "ready"],
      <<>> }

NoUpdate == [pc |-> "idle", id |-> "", updates |-> <<>>, data |-> <<>>, type |-> ""]

RaceIdle == upd = [u \in Callers |-> NoUpdate]

\* the status a call names is no earlier stage than the one it finds stored
Advances(updates, data) ==
    "status" \in DOMAIN updates => Rank(updates.status) >= Rank(data.status)

\* line 89, session_data = self.get_session(session_id): the caller holds the
\* record it read, or the call ends with what get_session raised
UpdateRead(u, id, updates, fault) ==
    /\ upd[u].pc = "idle"
    /\ LET got == GetSession(id, fault)
       IN IF got.kind = "raised"
          THEN upd' = [upd EXCEPT ![u] = [pc |-> "raised", id |-> id, updates |-> updates,
                                          data |-> <<>>, type |-> got.type]]
          ELSE /\ Advances(updates, got.data)
               /\ upd' = [upd EXCEPT ![u] = [pc |-> "read", id |-> id, updates |-> updates,
                                             data |-> got.data, type |-> ""]]
    /\ UNCHANGED <<sessVars, llmVars, storeVars, vecVars, snipVars, pret, tailVars>>

\* lines 90-98: the record read is merged, stamped and written with SETEX,
\* whatever the key holds by now; a store error is re-raised
UpdateWrite(u, fault) ==
    /\ upd[u].pc = "read"
    /\ IF fault
       THEN /\ upd' = [upd EXCEPT ![u].pc = "raised", ![u].type = "RedisError"]
            /\ UNCHANGED kv
       ELSE /\ kv' = Setex(upd[u].id, MergeThenStamp(upd[u].data, upd[u].updates, now))
            /\ upd' = [upd EXCEPT ![u].pc = "done"]
    /\ UNCHANGED <<issued, ret>>
    /\ UNCHANGED <<sessVars, llmVars, vecVars, snipVars, pret, tailVars>>

(***************************************************************************)
(* The sweep's reclaim of one session, statement by statement              *)
(* (session_service.py 161-180), and where a cancellation can reach it.    *)
(* cancel() marks the task; CancelledError is raised in it at the await    *)
(* where it is suspended.  An await suspends only if the awaited coroutine *)
(* itself waits for something.                                             *)
(***************************************************************************)

\* the awaits of the task: asyncio.sleep (145), cleanup_temp_files (173),
\* delete_collection (174)
AwaitPoints == {"sleep", "files", "collection"}

\* mutant: delete_collection waits for the vector store and yields to the loop
SuspendsAtCollection(point) == point \in {"sleep", "collection"}

\* asyncio.sleep suspends; the bodies of cleanup_temp_files
\* (file_service.py 274-295) and delete_collection (vector_service.py
\* 129-138) contain no await, so awaiting them runs them to their end
Suspends(point) == point = "sleep"

NoReclaim ==
    [pc |-> "none", s |-> "", begun |-> {}, ran |-> {}, faulted |-> {}, whole |-> {}]
ReclaimIdle == rcl = NoReclaim

\* the await the task is at, if any
AtPoint ==
    IF swPc = "sleep" THEN "sleep"
    ELSE IF swPc = "cycle" /\ rcl.pc \in AwaitPoints THEN rcl.pc
    ELSE "none"

\* the task is suspended: the event loop runs handlers and the shutdown
Suspended == AtPoint \in AwaitPoints /\ Suspends(AtPoint)

\* the event loop is free for a request handler
Yielded == Suspended \/ swPc \in {"done", "crashed"}

\* lines 153-162: get_session, the inactivity test, and into the reclaim block
ReclaimExamine(s) ==
    /\ swPc = "cycle"
    /\ rcl.pc = "none"
    /\ s \in swTodo
    /\ IF Live(s) /\ Inactive(swNow, rec[s].la)
       THEN /\ rcl' = [rcl EXCEPT !.pc = "files", !.s = s, !.begun = @ \cup {s}]
            /\ UNCHANGED swTodo
       ELSE /\ swTodo' = swTodo \ {s}
            /\ UNCHANGED rcl
    /\ UNCHANGED <<now, rec, coll, ipc, qpc, swPc, timer, swNow, swStale, swFaulted,
                   swDelFail, swErr, cancel>>
    /\ UNCHANGED <<llmVars, storeVars, vecVars, snipVars, pret, upd, hret>>

\* lines 166-173: the two services are built and cleanup_temp_files is
\* awaited; an exception goes to the handler of line 177, which deletes the
\* session anyway
ReclaimFiles(svcFault) ==
    /\ swPc = "cycle"
    /\ rcl.pc = "files"
    /\ rcl' = IF svcFault /\ CleanupHandler("ServiceError") = "delete_anyway"
              THEN [rcl EXCEPT !.pc = "record", !.faulted = @ \cup {rcl.s}]
              ELSE [rcl EXCEPT !.pc = "collection"]
    /\ UNCHANGED sessVars
    /\ UNCHANGED <<llmVars, storeVars, vecVars, snipVars, pret, upd, hret>>

\* line 174: delete_collection, which logs and swallows a fault of the index
ReclaimCollection(collFault) ==
    /\ swPc = "cycle"
    /\ rcl.pc = "collection"
    /\ coll' = [coll EXCEPT ![rcl.s] = coll[rcl.s] /\ collFault]
    /\ rcl' = [rcl EXCEPT !.pc = "record",
                          !.faulted = IF collFault THEN @ \cup {rcl.s} ELSE @]
    /\ UNCHANGED <<now, rec, ipc, qpc>>
    /\ UNCHANGED sweepVars
    /\ UNCHANGED <<llmVars, storeVars, vecVars, snipVars, pret, upd, hret>>

\* lines 175 and 180: delete_session, and on to the next session of the list
ReclaimRecord(delFault) ==
    /\ swPc = "cycle"
    /\ rcl.pc = "record"
    /\ rec' = DeleteSession(rcl.s, delFault)
    /\ swTodo' = swTodo \ {rcl.s}
    /\ rcl' = [rcl EXCEPT !.pc = "none", !.s = "", !.ran = @ \cup {rcl.s},
                          !.faulted = IF delFault THEN @ \cup {rcl.s} ELSE @,
                          !.whole = IF rec'[rcl.s] = NoRec /\ ~coll[rcl.s]
                                    THEN @ \cup {rcl.s} ELSE @]
    /\ UNCHANGED <<now, coll, ipc, qpc, swPc, timer, swNow, swStale, swFaulted,
                   swDelFail, swErr, cancel>>
    /\ UNCHANGED <<llmVars, storeVars, vecVars, snipVars, pret, upd, hret>>

\* lifespan shutdown (main.py 49-55): cleanup_task.cancel() runs on the loop
\* of the task, so while the task is suspended
ShutdownAt ==
    /\ cancel = "none"
    /\ Suspended
    /\ cancel' = "requested"
    /\ UNCHANGED <<now, rec, coll, ipc, qpc, swPc, timer, swNow, swTodo,
                   swStale, swFaulted, swDelFail, swErr>>
    /\ UNCHANGED <<llmVars, storeVars, vecVars, auxVars>>

\* CancelledError is raised at the await the task is suspended at: it is no
\* Exception, so it passes the handlers of lines 177 and 184 and leaves the
\* loop at line 190; what the task was doing stays as it is
CancelledAt ==
    /\ cancel = "requested"
    /\ Suspended
    /\ cancel' = "delivered"
    /\ swPc' = IF CleanupHandler("CancelledError") = "propagate"
               THEN SweepGoto(SweepHandlers("cycle", "CancelledError"))
               ELSE swPc
    /\ timer' = 0
    /\ UNCHANGED <<now, rec, coll, ipc, qpc, swNow, swTodo,
                   swStale, swFaulted, swDelFail, swErr>>
    /\ UNCHANGED <<llmVars, storeVars, vecVars, auxVars>>

(***************************************************************************)
(* The session endpoints (api/session.py) and the result of process_query  *)
(* (services/rag_service.py 112-127), each handler as one call.            *)
(***************************************************************************)

NoReply == [op |-> "none"]
ApiIdle == hret = NoReply

\* the response of cleanup_session: 404 when get_session raised
\* SessionNotFoundException; cleanup_temp_files, delete_collection and
\* delete_session log what they meet and raise nothing, so 200 otherwise
CleanupStatus(found, filesFault, collFault, delFault) ==
    IF ~found THEN 404 ELSE 200

\* DELETE /cleanup: get_session, cleanup_temp_files, delete_collection,
\* delete_session
ApiCleanup(s, filesFault, collFault, delFault) ==
    /\ LET found == Live(s)
       IN /\ vdb' = IF found
                    THEN [vdb EXCEPT ![s] = DeleteCollection(vdb[s], collFault).coll]
                    ELSE vdb
          /\ rec' = IF found THEN DeleteSession(s, delFault) ELSE rec
          /\ hret' = [op |-> "cleanup", s |-> s,
                      status |-> CleanupStatus(found, filesFault, collFault, delFault),
                      files_removed |-> found /\ ~filesFault,
                      before |-> vdb[s]]
    /\ UNCHANGED <<now, coll, ipc, qpc>>
    /\ UNCHANGED sweepVars
    /\ UNCHANGED <<ixFailed, vret>>
    /\ UNCHANGED <<llmVars, storeVars, snipVars, pret, upd, rcl>>

\* the files of a codebase and which file each chunk was cut from
\* (chunk.file_path, stored as metadata['file_path'] with the embedding)
FilePaths == {"a.py", "b.py"}
FileLayouts == [ChunkIds -> FilePaths]

\* _extract_code_snippets: one snippet per chunk, in the order given
ExtractCodeSnippets(chunks, layout) ==
    [i \in 1..Len(chunks) |->
        [file |-> layout[chunks[i].id], code |-> chunks[i].code, name |-> chunks[i].id]]

\* mutant: the file path of every chunk, repeated as often as it occurs
RelevantFilesPerChunk(chunks, layout) ==
    {[i \in 1..Len(chunks) |-> layout[chunks[i].id]]}

\* list(set(chunk['metadata']['file_path'] for chunk in similar_chunks)): the
\* distinct paths, in whatever order the set gives them
RelevantFiles(chunks, layout) ==
    LET paths == {layout[chunks[i].id] : i \in 1..Len(chunks)}
    IN {sq \in [1..Cardinality(paths) -> paths] :
            \A i, j \in 1..Len(sq) : i # j => sq[i] # sq[j]}

\* process_query with settings.max_chunks_per_query = k: search_similar,
\* generate_explanation, then the result dict of lines 112-127; what is
\* raised is logged and re-raised
ApiProcessQuery(s, q, k, layout, searchFault, llmOk) ==
    /\ LET found == SearchSimilar(vdb[s], q, k, searchFault)
       IN IF found.kind = "raised" \/ ~llmOk
          THEN hret' = [op |-> "process_query", s |-> s, kind |-> "raised", k |-> k,
                        layout |-> layout, similar |-> <<>>, result |-> <<>>]
          ELSE \E files \in RelevantFiles(found.value, layout) :
                  hret' = [op |-> "process_query", s |-> s, kind |-> "ok", k |-> k,
                           layout |-> layout, similar |-> found.value,
                           result |-> [code_snippets |->
                                           ExtractCodeSnippets(found.value, layout),
                                       relevant_files |-> files,
                                       chunks_retrieved |-> Len(found.value)]]
    /\ UNCHANGED <<sessVars, llmVars, storeVars, vecVars, snipVars, pret, upd, rcl>>

\* the lifetime get_session_status assumes (session.py 37, "Assuming 1 hour
\* TTL"): the default of settings.session_ttl
AssumedTtl == SessionTTL

\* ttl_remaining = max(0, int(3600 - elapsed)), elapsed counted from the
\* record's created_at
TtlRemaining(data, t) ==
    IF AssumedTtl - (t - data.created_at) > 0
    THEN AssumedTtl - (t - data.created_at) ELSE 0

\* GET /status: get_session and the response built from the record; a
\* missing session answers 404, a store error 500
ApiStatus(id, fault) ==
    /\ LET got == GetSession(id, fault)
       IN hret' = IF got.kind = "raised"
                  THEN [op |-> "status", s |-> id, at |-> now,
                        status |-> IF got.type = "SessionNotFoundException"
                                   THEN 404 ELSE 500,
                        ttl_remaining |-> 0]
                  ELSE [op |-> "status", s |-> id, at |-> now, status |-> 200,
                        ttl_remaining |-> TtlRemaining(got.data, now)]
    /\ UNCHANGED <<sessVars, llmVars, storeVars, vecVars, snipVars, pret, upd, rcl>>

(***************************************************************************)
(*                          SPECIFICATIONS                                 *)
(***************************************************************************)

SessInit ==
    /\ now = 0
    /\ rec = [s \in SessionIds |-> NoRec]
    /\ coll = [s \in SessionIds |-> FALSE]
    /\ ipc = [s \in SessionIds |-> "idle"]
    /\ qpc = [s \in SessionIds |-> FALSE]
    /\ swPc = "sleep"
    /\ timer = CleanupInterval
    /\ swNow = 0
    /\ swTodo = {}
    /\ swStale = {}
    /\ swFaulted = {}
    /\ swDelFail = {}
    /\ swErr = "none"
    /\ cancel = "none"

Init ==
    /\ SessInit
    /\ defaultModel = "m1"
    /\ fallbackModels = <<>>
    /\ enableFallback = TRUE
    /\ LLMIdle
    /\ StoreIdle
    /\ VecIdle
    /\ SnipIdle
    /\ ParseIdle
    /\ RaceIdle
    /\ ReclaimIdle
    /\ ApiIdle

IngestStep ==
    \E s \in SessionIds, lag \in Lags, fault \in BOOLEAN :
        \/ IngestStart(s, lag, fault)
        \/ IngestSetParsing(s, lag, fault)
        \/ IngestSetIndexing(s, lag, fault)
        \/ IngestSetReady(s, lag, fault)

SweepStep ==
    \/ \E s \in SessionIds, getFault, svcFault, filesFault, collFault, delFault \in BOOLEAN :
            SweepExamine(s, getFault, svcFault, filesFault, collFault, delFault)
    \/ SweepCycleEnd
    \/ SweepCancelled

\* the request handlers; the host serves requests until its shutdown begins
Serve ==
    /\ cancel = "none"
    /\ \/ IngestStep
       \/ \E s \in SessionIds, outcome \in IndexOutcomes :
               IngestIndex(s, outcome)
       \/ \E s \in SessionIds : QueryRead(s)
       \/ \E s \in SessionIds, lag \in Lags : QueryWrite(s, lag)
       \/ \E s \in SessionIds, collFault \in BOOLEAN :
               CleanupSession(s, collFault)

Next ==
    \/ Serve
    \/ Tick
    \/ \E listFault \in BOOLEAN : SweepWake(listFault)
    \/ SweepStep
    \/ Shutdown

Spec == Init /\ [][Next]_vars

\* the event loop runs a task that is ready: a cycle runs to its end without
\* suspending, and a cancelled sleep raises CancelledError in the task
FairSpec == Spec /\ WF_vars(SweepStep)

LLMInit ==
    /\ SessInit
    /\ defaultModel \in Models
    /\ fallbackModels \in SeqsUpTo(Models, MaxFallbacks)
    /\ enableFallback \in BOOLEAN
    /\ LLMIdle
    /\ StoreIdle
    /\ VecIdle
    /\ SnipIdle
    /\ ParseIdle
    /\ RaceIdle
    /\ ReclaimIdle
    /\ ApiIdle

LLMNext ==
    \/ \E model \in ModelArgs : GenerateExplanation(model)
    \/ \E outcome \in Outcomes : CallModel(outcome)

LLMSpec == LLMInit /\ [][LLMNext]_vars

StoreNext ==
    \/ \E id \in SessionIds, fault \in BOOLEAN : StoreCreate(id, fault)
    \/ \E id \in SessionIds, fault \in BOOLEAN : StoreGet(id, fault)
    \/ \E id \in SessionIds, updates \in UpdatesSet, fault \in BOOLEAN :
            StoreUpdate(id, updates, fault)
    \/ \E id \in SessionIds, fault \in BOOLEAN : StoreDelete(id, fault)
    \/ Tick

StoreSpec == Init /\ [][StoreNext]_vars

VecNext ==
    \/ \E s \in SessionIds, fault \in CreateFaults : VecCreate(s, fault)
    \/ \E s \in SessionIds, chunks \in ChunkLists, vectors \in VectorLists,
          failAt \in FailAts : VecInsert(s, chunks, vectors, failAt)
    \/ \E s \in SessionIds, q \in Vectors, k \in TopKs, fault \in BOOLEAN :
            VecSearch(s, q, k, fault)
    \/ \E s \in SessionIds, fault \in BOOLEAN : VecDelete(s, fault)
    \/ \E s \in SessionIds, chunks \in ChunkLists, outcome \in IndexOutcomes :
          \E failAt \in (IF outcome = "insert_failed" THEN FailAts \ {0} ELSE {0}) :
            VecIndex(s, chunks, outcome, failAt)

VecSpec == Init /\ [][VecNext]_vars

RagNext ==
    \/ \E s \in SessionIds, chunks \in ChunkLists, outcome \in IndexOutcomes :
          \E failAt \in (IF outcome = "insert_failed" THEN FailAts \ {0} ELSE {0}),
             delFault \in (IF outcome = "ok" THEN {FALSE} ELSE BOOLEAN) :
            VecIngest(s, chunks, outcome, failAt, delFault)
    \/ \E s \in SessionIds, q \in Vectors, searchFault, llmOk \in BOOLEAN :
            VecQuery(s, q, searchFault, llmOk)
    \/ \E s \in SessionIds, q \in Vectors, k \in TopKs, fault \in BOOLEAN :
            VecSearch(s, q, k, fault)
    \/ \E s \in SessionIds, fault \in BOOLEAN : VecDelete(s, fault)

RagSpec == Init /\ [][RagNext]_vars

SnipNext ==
    \/ \E model \in ModelArgs : GenerateExplanation(model)
    \/ \E outcome \in Outcomes : CallModel(outcome)
    \/ \E model \in ModelArgs : GenerateCodeSnippet(model)
    \/ \E outcome \in Outcomes : SnippetCall(outcome)

SnipSpec == LLMInit /\ [][SnipNext]_vars

ParseNext ==
    \/ \E f \in AllFiles : ParseFile(f)
    \/ \E files \in SeqsUpTo(RunFiles, MaxFiles) : ParseCodebase(files)

ParseSpec == Init /\ [][ParseNext]_vars

RaceNext ==
    \/ \E id \in RaceIds, fault \in BOOLEAN : StoreCreate(id, fault)
    \/ \E id \in RaceIds, fault \in BOOLEAN : StoreDelete(id, fault)
    \/ \E u \in Callers, id \in RaceIds, updates \in RaceUpdates, fault \in BOOLEAN :
            UpdateRead(u, id, updates, fault)
    \/ \E u \in Callers, fault \in BOOLEAN : UpdateWrite(u, fault)
    \/ Tick

RaceSpec == Init /\ [][RaceNext]_vars

\* the sweep with its reclaim statement by statement; handlers run while the
\* task is suspended or has stopped, and until the shutdown begins
ReclaimNext ==
    \/ (Yielded /\ cancel = "none" /\ IngestStep)
    \/ (Yielded /\ cancel = "none"
          /\ \E s \in SessionIds, outcome \in IndexOutcomes : IngestIndex(s, outcome))
    \/ Tick
    \/ \E listFault \in BOOLEAN : SweepWake(listFault)
    \/ \E s \in SessionIds : ReclaimExamine(s)
    \/ \E svcFault \in BOOLEAN : ReclaimFiles(svcFault)
    \/ \E collFault \in BOOLEAN : ReclaimCollection(collFault)
    \/ \E delFault \in BOOLEAN : ReclaimRecord(delFault)
    \/ SweepCycleEnd
    \/ ShutdownAt
    \/ CancelledAt

ReclaimSpec == Init /\ [][ReclaimNext]_vars

ApiNext ==
    \/ \E s \in SessionIds, chunks \in ChunkLists, outcome \in IndexOutcomes :
          \E failAt \in (IF outcome = "insert_failed" THEN FailAts \ {0} ELSE {0}),
             delFault \in (IF outcome = "ok" THEN {FALSE} ELSE BOOLEAN) :
            VecIngest(s, chunks, outcome, failAt, delFault)
    \/ \E s \in SessionIds, filesFault, collFault, delFault \in BOOLEAN :
            ApiCleanup(s, filesFault, collFault, delFault)
    \/ Tick

ApiSpec == Init /\ [][ApiNext]_vars

QueryNext ==
    \/ \E s \in SessionIds, chunks \in ChunkLists, outcome \in IndexOutcomes :
          \E failAt \in (IF outcome = "insert_failed" THEN FailAts \ {0} ELSE {0}),
             delFault \in (IF outcome = "ok" THEN {FALSE} ELSE BOOLEAN) :
            VecIngest(s, chunks, outcome, failAt, delFault)
    \/ \E s \in SessionIds, q \in Vectors, k \in TopKs, layout \in FileLayouts,
          searchFault, llmOk \in BOOLEAN :
            ApiProcessQuery(s, q, k, layout, searchFault, llmOk)

QuerySpec == Init /\ [][QueryNext]_vars

StatusNext ==
    \/ \E id \in SessionIds, fault \in BOOLEAN : StoreCreate(id, fault)
    \/ \E id \in SessionIds, updates \in UpdatesSet, fault \in BOOLEAN :
            StoreUpdate(id, updates, fault)
    \/ \E id \in SessionIds, fault \in BOOLEAN : ApiStatus(id, fault)
    \/ Tick

StatusSpec == Init /\ [][StatusNext]_vars

(***************************************************************************)
(*                              CLAIMS                                     *)
(***************************************************************************)

\* indices of the requests sent for position p of models_to_try
CallsAt(p) == {i \in 1..Len(callLog) : callLog[i].pos = p}

\* the chain the configuration prescribes when no model is given
ConfiguredChain == <<defaultModel>> \o fallbackModels

\* C1 (as claimed): when a sweep cycle that met no fault has run through its list,
\* every ready session whose ingest has finished and whose last activity was older
\* than the TTL at the cycle's current_time is gone from the store and has no
\* vector collection left.
C1_StaleGoneAfterSweep ==
    (swPc = "cycle" /\ swTodo = {} /\ swErr \notin {"list", "get"}
        /\ swFaulted = {} /\ swDelFail = {})
    => \A s \in SessionIds :
          (rec[s] # NoRec /\ rec[s].status = "ready" /\ ipc[s] = "end"
              /\ swNow - rec[s].la > SessionTTL)
          => (~Live(s) /\ ~coll[s])

\* C2 (as claimed): a model is never called more than StopAfterAttempt times, and a
\* model that counts as failed after transient failures only (timeout, network)
\* has been called StopAfterAttempt times.
C2_TransientRetried ==
    \A p \in 1..Len(modelsToTry) :
        /\ Cardinality(CallsAt(p)) <= StopAfterAttempt
        /\ (p < idx /\ \A i \in CallsAt(p) : callLog[i].outcome \in TransientErrors)
            => Cardinality(CallsAt(p)) = StopAfterAttempt

\* C3: with no model given and fallback enabled, the requests go to the default
\* model and then to the fallbacks in configured order, none follows a success,
\* and the call returns exactly when a request succeeded, with that request's
\* model as model_used (so a failing default and a succeeding fallback return the
\* fallback and raise nothing).
C3_FallbackInOrder ==
    (llmPc # "idle" /\ ~Truthy(modelArg) /\ enableFallback) =>
        LET n == Len(callLog) IN
        /\ \A i \in 1..n :
              /\ callLog[i].pos \in 1..Len(ConfiguredChain)
              /\ callLog[i].model = ConfiguredChain[callLog[i].pos]
              /\ callLog[i].pos = (IF i = 1 THEN 1 ELSE callLog[i - 1].pos + 1)
              /\ i < n => callLog[i].outcome # "ok"
        /\ (n > 0 /\ callLog[n].outcome = "ok") <=> llmPc = "returned"
        /\ llmPc = "returned" => llmResult.model_used = callLog[n].model
        /\ llmPc = "raised" => n = Len(ConfiguredChain)

\* C3 witness: the default model failed and the first fallback answered
C3_Witness ==
    /\ llmPc = "returned"
    /\ ~Truthy(modelArg)
    /\ enableFallback
    /\ Len(callLog) = 2
    /\ llmResult.model_used = fallbackModels[1]
    /\ llmResult.model_used # defaultModel

\* C4: with a model given, every request goes to that model and a return names it
\* as model_used, and when it fails nothing else is called; with no model given and
\* fallback disabled, every request goes to the default model.
C4_OnlyGivenModel ==
    /\ Truthy(modelArg) =>
          /\ \A i \in 1..Len(callLog) : callLog[i].model = modelArg
          /\ llmPc = "returned" => llmResult.model_used = modelArg
    /\ (llmPc # "idle" /\ ~Truthy(modelArg) /\ ~enableFallback) =>
          /\ \A i \in 1..Len(callLog) : callLog[i].model = defaultModel
          /\ llmPc = "returned" => llmResult.model_used = defaultModel

\* C4 witness: the given model failed, fallbacks are configured and enabled, and
\* the call has ended without asking any of them
C4_Witness ==
    /\ llmPc = "raised"
    /\ Truthy(modelArg)
    /\ enableFallback
    /\ fallbackModels # <<>>
    /\ modelArg # defaultModel
    /\ \A i \in 1..Len(fallbackModels) : fallbackModels[i] # modelArg

\* C5: the call raises exactly when every model of the list has been asked and has
\* failed, and what it raises is the LLMException "All models failed" carrying the
\* error of the last request.
C5_ExhaustedCarriesLast ==
    LET n == Len(callLog) IN
    /\ llmPc = "raised" <=> (llmPc # "idle" /\ idx > Len(modelsToTry))
    /\ llmPc = "raised" =>
          /\ llmResult.kind = "raised"
          /\ llmResult.type = "LLMException"
          /\ llmResult.text = "All models failed"
          /\ n > 0
          /\ callLog[n].pos = Len(modelsToTry)
          /\ llmResult.last = CallModelExcept(ApiException(callLog[n].outcome), callLog[n].model)
          /\ {callLog[i].pos : i \in 1..n} = 1..Len(modelsToTry)
          /\ \A i \in 1..n : callLog[i].outcome # "ok"

\* C5 witness: three models failed, each in another way
C5_Witness ==
    /\ llmPc = "raised"
    /\ Len(callLog) = 3
    /\ callLog[1].outcome # callLog[3].outcome
    /\ callLog[2].outcome # callLog[3].outcome

\* C6: a request that ends in a hard failure (quota, rate limit, model not found)
\* is the only request sent for its model, and the chain has moved to the next
\* position right after it.
C6_HardFailureNotRetried ==
    \A i \in 1..Len(callLog) :
        callLog[i].outcome \in HardErrors =>
            /\ CallsAt(callLog[i].pos) = {i}
            /\ i < Len(callLog) => callLog[i + 1].pos = callLog[i].pos + 1
            /\ i = Len(callLog) => idx = callLog[i].pos + 1

\* C6 witness: a hard failure of one model was followed by a request to the next
C6_Witness ==
    /\ Len(callLog) >= 2
    /\ callLog[1].outcome \in HardErrors
    /\ callLog[2].model # callLog[1].model

\* C7: every session a cycle finds inactive has its record deleted in that very
\* step unless the store refuses the delete, whether or not its cleanup hit a
\* fault, and has its collection removed when the cleanup hit none; and a cycle
\* that still has sessions to examine goes on with them.
C7_SweepCleanupIsolated ==
    [][ /\ \A s \in swStale' \ swStale :
              /\ s \notin swDelFail' => rec'[s] = NoRec
              /\ s \notin swFaulted' => ~coll'[s]
        /\ (swPc = "cycle" /\ swTodo # {}) =>
              /\ swPc' = "cycle"
              /\ swTodo' = swTodo \/ \E s \in swTodo : swTodo' = swTodo \ {s}
      ]_vars

\* C7 witness: one cycle reclaimed two sessions, the cleanup of one of them hit a
\* fault, and both records are gone
C7_Witness ==
    /\ swPc = "cycle"
    /\ swTodo = {}
    /\ \E s1 \in swFaulted, s2 \in swStale \ swFaulted :
          /\ s1 # s2
          /\ rec[s1] = NoRec
          /\ rec[s2] = NoRec

\* C8: the sweep task never ends with an error, and it has ended only when a
\* cancellation was delivered; otherwise it is sleeping or in a cycle.
C8_SweepSurvivesErrors ==
    /\ swPc \in {"sleep", "cycle", "done"}
    /\ swPc = "done" => cancel = "delivered"
    /\ swPc = "sleep" => timer \in 0..CleanupInterval

\* C8 witness: a cycle logged an error and the next cycle is running
C8_Witness == swErr = "past" /\ swPc = "cycle"

\* C9: a requested cancellation leads to the task having ended, and once it is
\* delivered the task is done and no record or collection is removed any more.
C9_CancelStopsSweep ==
    /\ (cancel = "requested") ~> (swPc = "done")
    /\ [][cancel = "delivered" => (swPc' = "done" /\ rec' = rec /\ coll' = coll)]_vars

\* C9 witness: the task has ended on a cancellation while a session that it would
\* have reclaimed is still in the store
C9_Witness ==
    /\ swPc = "done"
    /\ cancel = "delivered"
    /\ \E s \in SessionIds : Live(s) /\ now - rec[s].la > SessionTTL

\* C10: whenever a session's stored record is replaced by another, the new status
\* is the same or a later stage of initializing, parsing, indexing, ready.
C10_StatusMonotone ==
    [][ \A s \in SessionIds :
            (rec[s] # NoRec /\ rec'[s] # NoRec) =>
                /\ Rank(rec'[s].status) >= 1
                /\ Rank(rec'[s].status) >= Rank(rec[s].status)
      ]_vars

\* C10 witness: a session went through its ingest to ready and a query's update of
\* it is under way
C10_Witness ==
    \E s \in SessionIds :
        /\ ipc[s] = "end"
        /\ rec[s].status = "ready"
        /\ qpc[s]

\* C11: right after create_session returned an identifier, get_session of it
\* succeeds with status initializing and empty metadata, and the key's
\* time-to-live is the whole session_ttl.
C11_CreateThenGet ==
    (ret.op = "create" /\ ret.kind = "ok" /\ ret.at = now) =>
        LET got == GetSession(ret.id, FALSE) IN
        /\ got.kind = "ok"
        /\ got.data.session_id = ret.id
        /\ got.data.status = "initializing"
        /\ got.data.metadata = <<>>
        /\ Ttl(ret.id) = SessionTTL

\* C11 witness: a session was created just now, later than the start, while
\* another session's record is in the store
C11_Witness ==
    /\ ret.op = "create"
    /\ ret.kind = "ok"
    /\ ret.at = now
    /\ now > 0
    /\ \E id \in SessionIds : id # ret.id /\ KeyLive(id)

\* C12: after a successful update_session, whatever fields it was given, the
\* record's last_activity is the time of the call, its expiry is session_ttl
\* after the call, and the other fields given are in the record.
C12_UpdateRefreshes ==
    (ret.op = "update" /\ ret.kind = "ok") =>
        /\ kv[ret.id].present
        /\ kv[ret.id].data.last_activity = ret.at
        /\ kv[ret.id].exp = ret.at + SessionTTL
        /\ \A f \in (DOMAIN ret.updates) \ {"last_activity"} :
              kv[ret.id].data[f] = ret.updates[f]

\* C12 witness: a record created earlier was updated with fields that name
\* last_activity themselves
C12_Witness ==
    /\ ret.op = "update"
    /\ ret.kind = "ok"
    /\ ret.updates = [last_activity |-> ForeignStamp]
    /\ kv[ret.id].data.created_at < ret.at

\* C13: get_session, update_session and delete_session of an identifier the
\* store has no live key for leave what the store shows of every session as
\* it was; delete_session returns, and the other two raise
\* SessionNotFoundException when the store itself answers.
C13_AbsentIdentifier ==
    [][ (/\ ret' # ret
         /\ ret'.op \in {"get", "update", "delete"}
         /\ ~KeyLive(ret'.id))
        => /\ View(kv', now') = View(kv, now)
           /\ ret'.op = "delete" => ret'.kind = "ok"
           /\ (ret'.op # "delete" /\ ~ret'.fault) =>
                 (ret'.kind = "raised" /\ ret'.type = "SessionNotFoundException")
      ]_vars

\* C13 witness: update_session of an expired session raised
\* SessionNotFoundException while another session is live
C13_Witness ==
    /\ ret.op = "update"
    /\ ret.type = "SessionNotFoundException"
    /\ kv[ret.id].present
    /\ \E id \in SessionIds : id # ret.id /\ KeyLive(id)

\* C14: an upload whose index_codebase failed at any step ends with the
\* failure, the one that ended without it left the whole chunk list in the
\* collection; the session of a failed one is never ready, and a query of it
\* is answered with an error, without results and without the generator.
C14_FailedIndexNeverServes ==
    /\ \A s \in ixFailed : rec[s].status # "ready"
    /\ vret.op = "ingest" =>
          IF vret.s \in ixFailed
          THEN vret.kind = "raised"
          ELSE /\ vret.kind = "ok"
               /\ {e.id : e \in vdb[vret.s].items} =
                      {vret.args.chunks[i] : i \in 1..Len(vret.args.chunks)}
    /\ (vret.op = "query" /\ vret.s \in ixFailed) =>
          /\ vret.kind = "raised"
          /\ vret.value.results = <<>>
          /\ ~vret.value.llm

\* C14 witness: the insert failed at its second batch, the first batch is in
\* the collection, the record outlived the handler's delete_session, and a
\* query of the session was refused
C14_Witness ==
    /\ vret.op = "query"
    /\ vret.s \in ixFailed
    /\ vret.kind = "raised"
    /\ Live(vret.s)
    /\ vdb[vret.s].exists
    /\ vdb[vret.s].items # {}

\* C15: after index_codebase returned for a chunk list, the session's
\* collection holds one entry per chunk, under the chunk's identifier, with
\* the chunk's code and embedding, and nothing else; chunks_indexed and
\* embeddings_generated both equal the length of the list.
C15_IndexStoresEveryChunk ==
    (vret.op = "index" /\ vret.kind = "ok") =>
        LET chunks == vret.args.chunks
            items == vdb[vret.s].items
        IN /\ vdb[vret.s].exists
           /\ Cardinality(items) = Len(chunks)
           /\ \A i \in 1..Len(chunks) :
                 [id |-> chunks[i], code |-> Code(chunks[i]),
                  vec |-> EncodeText[chunks[i]]] \in items
           /\ vret.value.chunks_indexed = Len(chunks)
           /\ vret.value.embeddings_generated = Len(chunks)

\* C15 witness: a list of more chunks than one batch takes was indexed into
\* a session whose collection held entries before
C15_Witness ==
    /\ vret.op = "index"
    /\ vret.kind = "ok"
    /\ Len(vret.args.chunks) > BatchSize
    /\ vret.before.items # {}

\* C16: the list search_similar returns is no longer than top_k and no longer
\* than the collection, each result is an entry of the collection with its
\* distance to the query, and the distances never decrease along the list.
C16_SearchBoundedSorted ==
    (vret.op = "search" /\ vret.kind = "ok") =>
        LET found == vret.value
            items == vdb[vret.s].items
        IN /\ Len(found) <= vret.args.k
           /\ Len(found) <= Cardinality(items)
           /\ \A i \in 1..Len(found) :
                 \E e \in items :
                    /\ e.id = found[i].id
                    /\ e.code = found[i].code
                    /\ Distance(vret.args.q, e.vec) = found[i].distance
           /\ \A i, j \in 1..Len(found) :
                 i < j => found[i].distance <= found[j].distance

\* C16 witness: a search gave two results at different distances, with top_k
\* above the size of the collection
C16_Witness ==
    /\ vret.op = "search"
    /\ vret.kind = "ok"
    /\ Len(vret.value) = 2
    /\ vret.value[1].distance < vret.value[2].distance
    /\ vret.args.k > Cardinality(vdb[vret.s].items)

\* C17: search_similar of a session without a collection raises
\* VectorDBException; a query of a ready session without a collection ends in
\* an error, without results, and generate_explanation is not called.
C17_NoCollectionIsAnError ==
    /\ (vret.op = "search" /\ ~vdb[vret.s].exists) =>
          (vret.kind = "raised" /\ vret.type = "VectorDBException")
    /\ (/\ vret.op = "query"
        /\ Live(vret.s)
        /\ rec[vret.s].status = "ready"
        /\ ~vdb[vret.s].exists)
       => /\ vret.kind = "raised"
          /\ vret.value.results = <<>>
          /\ ~vret.value.llm

\* C17 witness: a session was indexed and is ready, its collection was
\* deleted, and a query of it was refused
C17_Witness ==
    /\ vret.op = "query"
    /\ vret.s \notin ixFailed
    /\ Live(vret.s)
    /\ rec[vret.s].status = "ready"
    /\ ~vdb[vret.s].exists
    /\ vret.kind = "raised"

\* C18: after create_collection returned, the session's collection exists
\* and is empty, whatever it held before, and a search of it finds nothing.
C18_CreateEmpties ==
    (vret.op = "create_collection" /\ vret.kind = "ok") =>
        /\ vdb[vret.s] = EmptyColl
        /\ \A q \in Vectors, k \in TopKs \ {0} :
              SearchSimilar(vdb[vret.s], q, k, FALSE) = VecOk(<<>>)

\* C18 witness: create_collection returned for a session whose collection
\* held entries
C18_Witness ==
    /\ vret.op = "create_collection"
    /\ vret.kind = "ok"
    /\ vret.before.items # {}

\* C19: delete_collection returns without an error whether or not the
\* collection exists, leaves the session either without a collection or as
\* it was, deleting what is already deleted changes nothing, and no other
\* session's collection is touched.
C19_DeleteCollectionQuiet ==
    [][ (vret' # vret /\ vret'.op = "delete_collection")
        => /\ vret'.kind = "ok"
           /\ vdb'[vret'.s] \in {NoColl, vdb[vret'.s]}
           /\ ~vdb[vret'.s].exists => vdb' = vdb
           /\ \A t \in SessionIds \ {vret'.s} : vdb'[t] = vdb[t]
      ]_vars

\* C19 witness: delete_collection returned for a session that had no
\* collection while the other session's collection holds entries
C19_Witness ==
    /\ vret.op = "delete_collection"
    /\ vret.kind = "ok"
    /\ vret.before = NoColl
    /\ \E t \in SessionIds \ {vret.s} : vdb[t].items # {}

\* C20: insert_embeddings with chunk and embedding lists of different
\* lengths raises VectorDBException and leaves the collection as it was.
C20_MismatchRejected ==
    (vret.op = "insert" /\ Len(vret.args.chunks) # Len(vret.args.vectors)) =>
        /\ vret.kind = "raised"
        /\ vret.type = "VectorDBException"
        /\ vdb[vret.s] = vret.before

\* C21: with the configuration, the model argument and the answers of the
\* models the same, generate_code_snippet sends its requests to the models
\* generate_explanation sent them to, in that order; both end alike, with the
\* same model_used when they return, and when they raise, each with an
\* LLMException carrying the error of its last request.
C21_SnippetFollowsExplain ==
    snArg = modelArg =>
        /\ \A i \in 1..Len(snLog) :
              /\ i <= Len(callLog)
              /\ snLog[i].model = callLog[i].model
              /\ snLog[i].outcome = callLog[i].outcome
        /\ snPc \in {"returned", "raised"} =>
              /\ Len(snLog) = Len(callLog)
              /\ snResult.kind = llmResult.kind
              /\ snResult.model_used = llmResult.model_used
              /\ snResult.kind = "raised" =>
                    /\ snResult.type = "LLMException"
                    /\ llmResult.type = "LLMException"
                    /\ snResult.last = ApiException(snLog[Len(snLog)].outcome)
                    /\ llmResult.last =
                          CallModelExcept(ApiException(callLog[Len(callLog)].outcome),
                                          callLog[Len(callLog)].model)

\* C21 witness: called without a model, both went through the default model
\* and a fallback, which failed differently, and both raised
C21_Witness ==
    /\ snPc = "raised"
    /\ llmPc = "raised"
    /\ snArg = modelArg
    /\ ~Truthy(snArg)
    /\ Len(snLog) >= 2
    /\ snLog[1].outcome # snLog[2].outcome

\* the chunks of the last parse that belong to its i-th file
FileChunks(i) ==
    LET OfFile(c) == c.file_path = i IN SelectSeq(pret.chunks, OfFile)

\* the file could not be read, or ast.parse rejects it
Failing(f) == ~f.readable \/ (f.ext = ".py" /\ ~SyntaxOk(f.body))

\* the file holds no function or class definition its parser looks for
NoConstructs(f) ==
    CASE f.ext = ".py" -> \A i \in 1..Len(f.body) : f.body[i].kind = "stmt"
      [] f.ext = ".js" -> \A i \in 1..Len(f.body) : f.body[i] # "F"
      [] OTHER -> TRUE

\* C22: a file that parses and holds no function or class definition gives
\* exactly one chunk, of type module, whatever its extension and its text.
C22_OneModuleChunk ==
    \A i \in 1..Len(pret.files) :
        (~Failing(pret.files[i]) /\ NoConstructs(pret.files[i])) =>
            /\ Len(FileChunks(i)) = 1
            /\ FileChunks(i)[1].type = "module"

\* C23: every chunk of a parse has 1 <= start_line <= end_line.
C23_LinesOrdered ==
    \A k \in 1..Len(pret.chunks) :
        /\ 1 <= pret.chunks[k].start_line
        /\ pret.chunks[k].start_line <= pret.chunks[k].end_line

\* C24: the k-th chunk a parse_codebase run returns has the identifier
\* chunk_ followed by k in six digits, so no two chunks of a run share one,
\* also when files of the run fail.
C24_IdsSequential ==
    /\ \A k \in 1..Len(pret.chunks) : pret.chunks[k].id = ChunkId(k)
    /\ \A j, k \in 1..Len(pret.chunks) : j # k => pret.chunks[j].id # pret.chunks[k].id

\* C24 witness: a run of three files, the second failing, the first and the
\* third giving chunks
C24_Witness ==
    /\ pret.op = "parse_codebase"
    /\ Len(pret.files) = 3
    /\ Failing(pret.files[2])
    /\ FileChunks(1) # <<>>
    /\ Len(FileChunks(3)) >= 2

\* C25: a run returns no chunk of a file that cannot be read or that
\* ast.parse rejects, and for every other file the chunks that file gives
\* when parsed alone, the files' chunks following each other in file order.
C25_FailingFileSkipped ==
    /\ \A i \in 1..Len(pret.files) :
          IF Failing(pret.files[i])
          THEN FileChunks(i) = <<>>
          ELSE LET alone == ParseFrom(<<pret.files[i]>>, 1, 0)
                   Shape(c) == <<c.type, c.name[1], c.code, c.start_line, c.end_line>>
               IN /\ Len(FileChunks(i)) = Len(alone)
                  /\ \A k \in 1..Len(alone) : Shape(FileChunks(i)[k]) = Shape(alone[k])
    /\ \A j, k \in 1..Len(pret.chunks) :
          j < k => pret.chunks[j].file_path <= pret.chunks[k].file_path
    /\ \A k \in 1..Len(pret.chunks) : pret.chunks[k].file_path \in 1..Len(pret.files)

\* C25 witness: a run whose first file ast.parse rejects and whose second
\* file cannot be read returned the chunks of its third file
C25_Witness ==
    /\ pret.op = "parse_codebase"
    /\ Len(pret.files) = 3
    /\ pret.files[1].readable
    /\ Failing(pret.files[1])
    /\ ~pret.files[2].readable
    /\ FileChunks(3) # <<>>
    /\ Len(pret.chunks) = Len(FileChunks(3))

\* the file is one function and nothing else: a def or async def head and
\* its body, or a function head and text without another head
SingleFunction(f) ==
    /\ f.readable
    /\ f.body # <<>>
    /\ CASE f.ext = ".py" ->
               /\ SyntaxOk(f.body)
               /\ f.body[1].kind \in {"def", "async def"}
               /\ \A i \in 2..Len(f.body) : f.body[i].kind = "stmt" /\ f.body[i].indent >= 1
         [] f.ext = ".js" ->
               /\ f.body[1] = "F"
               /\ \A i \in 2..Len(f.body) : f.body[i] # "F"
         [] OTHER -> FALSE

\* C26: a file that is one function of N lines gives one function chunk; its
\* name is the function's and it spans at most N lines.
C26_FunctionSpanBounded ==
    \A i \in 1..Len(pret.files) :
        SingleFunction(pret.files[i]) =>
            LET f == pret.files[i]
                N == IF f.ext = ".py" THEN Len(f.body) ELSE Len(SplitLines(f.body))
                IsFunction(c) == c.type = "function"
                fc == SelectSeq(FileChunks(i), IsFunction)
            IN /\ Len(fc) = 1
               /\ fc[1].name = <<"name", 1>>
               /\ fc[1].end_line - fc[1].start_line + 1 <= N

\* C27: a Python file ast.parse accepts gives the module chunk and one chunk
\* for each definition at the top level, function, async function or class,
\* and no other chunk.
C27_TopLevelOnly ==
    \A i \in 1..Len(pret.files) :
        (pret.files[i].ext = ".py" /\ ~Failing(pret.files[i])) =>
            LET body == pret.files[i].body
                top == {l \in 1..Len(body) : body[l].kind # "stmt" /\ body[l].indent = 0}
                got == FileChunks(i)
            IN /\ Len(got) = 1 + Cardinality(top)
               /\ got[1].type = "module"
               /\ \A l \in top :
                     \E k \in 2..Len(got) :
                        /\ got[k].start_line = l
                        /\ got[k].type = (IF body[l].kind = "class" THEN "class" ELSE "function")

\* the 1-based number of the line the p-th character of a text is on
LineOf(content, p) == CountNewlines(content, p - 1) + 1

\* C28: a readable file of an unknown extension with L > 0 characters gives
\* ceil(L / chunk_size) module chunks; the k-th is named part k, holds the
\* k-th window of the text, and its start_line and end_line are the lines of
\* the window's first and last character.
C28_WindowLines ==
    \A i \in 1..Len(pret.files) :
        (pret.files[i].ext = ".txt" /\ pret.files[i].readable /\ pret.files[i].body # <<>>) =>
            LET content == pret.files[i].body
                L == Len(content)
                got == FileChunks(i)
            IN /\ Len(got) = (L + ChunkSize - 1) \div ChunkSize
               /\ \A k \in 1..Len(got) :
                     LET first == (k - 1) * ChunkSize + 1
                         last == IF k * ChunkSize < L THEN k * ChunkSize ELSE L
                     IN /\ got[k].type = "module"
                        /\ got[k].name = <<"stem", i, "_part_", k>>
                        /\ got[k].code = SubSeq(content, first, last)
                        /\ got[k].start_line = LineOf(content, first)
                        /\ got[k].end_line = LineOf(content, last)


\* two calls on one session have both written, each naming a field the other
\* does not, and the record holds the field of one of them only
C29_LostWrite ==
    \E u, v \in Callers :
        /\ u # v
        /\ upd[u].pc = "done" /\ upd[v].pc = "done"
        /\ upd[u].id = upd[v].id
        /\ KeyLive(upd[u].id)
        /\ "metadata" \in DOMAIN upd[u].updates
        /\ "metadata" \notin DOMAIN upd[v].updates
        /\ "status" \in DOMAIN upd[v].updates
        /\ kv[upd[u].id].data.status = upd[v].updates.status
        /\ kv[upd[u].id].data.metadata # upd[u].updates.metadata

\* C29: two concurrent update_session calls on one session can lose the field
\* of one of them (C29_LostWrite is reached), and no write of update_session
\* replaces the status stored by an earlier stage.
C29_StatusNeverRegresses ==
    [][\A u \in Callers :
          (upd[u].pc = "read" /\ upd'[u].pc = "done" /\ KeyLive(upd[u].id)) =>
              Rank(kv'[upd[u].id].data.status) >= Rank(kv[upd[u].id].data.status)]_vars

\* C30: when the key is gone, deleted or expired, by the time an
\* update_session that has read it ends, the key is still gone afterwards or
\* the call raised SessionNotFoundException.
C30_NoRevival ==
    [][\A u \in Callers :
          (upd[u].pc = "read" /\ upd'[u].pc # "read" /\ ~KeyLive(upd[u].id)) =>
              \/ ~(kv'[upd[u].id].present /\ now' <= kv'[upd[u].id].exp)
              \/ (upd'[u].pc = "raised" /\ upd'[u].type = "SessionNotFoundException")]_vars


\* C31: a vector collection exists only for a session whose record the store
\* still answers for or whose ingest is still running.
C31_NoOrphanCollection ==
    \A s \in SessionIds :
        coll[s] => (Live(s) \/ ipc[s] \in {"extracted", "parsing", "indexing", "indexed"})


\* C32: a step of the sweep that examines a session whose last activity is at
\* most the TTL ago leaves the session's record and collection as they are.
C32_RecentSurvivesSweep ==
    [][\A s \in SessionIds :
          (swPc = "cycle" /\ s \in swTodo /\ s \notin swTodo'
              /\ Live(s) /\ now - rec[s].la <= SessionTTL) =>
              (rec'[s] = rec[s] /\ coll'[s] = coll[s])]_vars

\* C32 witness: a cycle has run through its list, reclaimed a stale session
\* and left alone a live one, written before the cycle began, whose last
\* activity was exactly the TTL ago
C32_Witness ==
    /\ swPc = "cycle"
    /\ swTodo = {}
    /\ swStale # {}
    /\ \E s \in SessionIds :
          /\ s \notin swStale
          /\ Live(s)
          /\ coll[s]
          /\ rec[s].exp - SessionTTL <= swNow
          /\ swNow - rec[s].la = SessionTTL


\* C33: the step in which the sweep task stops on a cancellation finds no
\* reclaim between its statements and changes no record and no collection:
\* every session whose reclaim the task began has been through delete_session
\* and, where no collaborator failed, had lost both its collection and its
\* record when its reclaim ended.
C33_CancelKeepsReclaimWhole ==
    [][(swPc # "done" /\ swPc' = "done") =>
          /\ rcl'.pc = "none"
          /\ \A s \in rcl'.begun :
                /\ s \in rcl'.ran
                /\ s \notin rcl'.faulted => s \in rcl'.whole
          /\ rec' = rec
          /\ coll' = coll]_vars

\* C33 witness: the task was cancelled after a cycle in which it reclaimed a
\* session that had a collection
C33_Witness ==
    /\ swPc = "done"
    /\ cancel = "delivered"
    /\ \E s \in rcl.whole : s \notin rcl.faulted /\ ipc[s] = "end" /\ rec[s] = NoRec /\ ~coll[s]


\* C34: an update_session that writes the record it read, no other write in
\* between, changes only the fields its map names and last_activity, and
\* every metadata entry stored before is stored after with the same value.
C34_UpdateKeepsMetadata ==
    [][\A u \in Callers :
          (upd[u].pc = "read" /\ upd'[u].pc = "done" /\ KeyLive(upd[u].id)
              /\ kv[upd[u].id].data = upd[u].data) =>
              LET old == kv[upd[u].id].data
                  new == kv'[upd[u].id].data
              IN /\ \A f \in DOMAIN old :
                       (f \notin DOMAIN upd[u].updates /\ f # "last_activity") =>
                           new[f] = old[f]
                 /\ \A k \in DOMAIN old.metadata :
                       k \in DOMAIN new.metadata /\ new.metadata[k] = old.metadata[k]]_vars


\* C35: index_codebase embeds before it touches the vector index: when
\* generate_embeddings raises, the session's collection is what it was before
\* the call, absent if it was absent and with its entries if it existed; and
\* when create_collection raises nothing has been inserted.
C35_EmbedFailureLeavesIndex ==
    vret.op = "index" =>
        /\ vret.type = "EmbeddingException" => vdb[vret.s] = vret.before
        /\ (vret.kind = "raised" /\ vret.type # "EmbeddingException"
               /\ ~vdb[vret.s].exists) => vdb[vret.s].items = {}

\* C35 witness: index_codebase raised EmbeddingException for a session that
\* had a collection with entries, and for one that had none
C35_Witness ==
    /\ vret.op = "index"
    /\ vret.type = "EmbeddingException"
    /\ vret.args.chunks # <<>>
    /\ vret.before.exists
    /\ vret.before.items # {}
    /\ \E s \in SessionIds : ~vdb[s].exists


\* C36: a query for a session that is in the store with a status other than
\* ready is answered with HTTP 400, runs neither retrieval nor the model, and
\* leaves the session's record, last activity included, as it is.
C36_NotReadyIs400 ==
    [][\A s \in SessionIds :
          (Live(s) /\ rec[s].status # "ready"
              /\ vret' # vret /\ vret'.op = "query" /\ vret'.s = s) =>
              /\ vret'.kind = "raised"
              /\ vret'.type = "HTTP400"
              /\ ~vret'.value.llm
              /\ vret'.value.results = <<>>
              /\ rec' = rec]_vars


\* C37: a cleanup_session that answers success leaves the session without
\* working files, collection and record, so that get_session raises
\* SessionNotFoundException and search_similar raises; one that finds no
\* record answers 404 and removes nothing.
C37_CleanupRemovesAll ==
    [][(hret' # hret /\ hret'.op = "cleanup") =>
          /\ hret'.status = 200 =>
                /\ hret'.files_removed
                /\ rec'[hret'.s] = NoRec
                /\ ~vdb'[hret'.s].exists
                /\ \A q \in Vectors :
                      SearchSimilar(vdb'[hret'.s], q, MaxChunksPerQuery, FALSE).kind = "raised"
          /\ ~Live(hret'.s) =>
                /\ hret'.status = 404
                /\ ~hret'.files_removed
                /\ vdb' = vdb
                /\ rec' = rec]_vars


\* C38: in a result of process_query, relevant_files holds the file path of
\* each retrieved chunk exactly once and nothing else, code_snippets holds
\* one snippet per retrieved chunk in the order of retrieval, and
\* chunks_retrieved is their number, at most the configured top-k.
C38_ResultPackaging ==
    (hret.op = "process_query" /\ hret.kind = "ok") =>
        LET similar == hret.similar
            res == hret.result
            PathOf(i) == hret.layout[similar[i].id]
        IN /\ \A i \in 1..Len(similar) :
                 Cardinality({j \in 1..Len(res.relevant_files) :
                                  res.relevant_files[j] = PathOf(i)}) = 1
           /\ \A j \in 1..Len(res.relevant_files) :
                 \E i \in 1..Len(similar) : res.relevant_files[j] = PathOf(i)
           /\ Len(res.code_snippets) = Len(similar)
           /\ \A i \in 1..Len(similar) :
                 /\ res.code_snippets[i].file = PathOf(i)
                 /\ res.code_snippets[i].code = similar[i].code
                 /\ res.code_snippets[i].name = similar[i].id
           /\ res.chunks_retrieved = Len(similar)
           /\ res.chunks_retrieved <= hret.k

\* C38 witness: both chunks of a collection were retrieved and belong to one
\* file, which relevant_files names once
C38_Witness ==
    /\ hret.op = "process_query"
    /\ hret.kind = "ok"
    /\ Len(hret.similar) = 2
    /\ hret.layout[hret.similar[1].id] = hret.layout[hret.similar[2].id]
    /\ hret.result.relevant_files = <<hret.layout[hret.similar[1].id]>>


\* C39: the ttl_remaining of a status response equals the time the store
\* will still keep the record, which is the TTL less the time since the
\* session's last activity, and is never below 0.
C39_TtlRemainingIsLifetime ==
    [][(hret' # hret /\ hret'.op = "status" /\ hret'.status = 200) =>
          /\ hret'.ttl_remaining >= 0
          /\ hret'.ttl_remaining = Ttl(hret'.s)
          /\ hret'.ttl_remaining =
                SessionTTL - (now - kv[hret'.s].data.last_activity)]_vars

====
